---- MODULE Spec2Model ----
(***************************************************************************)
(* PRBrain: the embedding store (src/src/adapters/storage.ts), the         *)
(* deduplication engine and its text similarity (src/core/dedup.ts, kept   *)
(* as src/unnamed/part_009), the diff parser                               *)
(* (src/src/utils/diff-parser.ts), the Tokenizer (src/unnamed/part_011)    *)
(* and the rate limiter (src/unnamed/part_012).                            *)
(*                                                                         *)
(* Similarities are JavaScript numbers in [-1, 1]; the model keeps them in *)
(* thousandths (0.8 is 800).  Embedding vectors are drawn from integer     *)
(* vectors whose magnitude is an integer, so that every cosine, and every  *)
(* weighted combination 0.7*v + 0.3*l of the values used, is an exact      *)
(* number of thousandths.  Timestamps (ISO strings in the code, compared   *)
(* through Date.getTime()) are integers.  The body field of a record is    *)
(* carried by the code but never read by it and is left out.               *)
(***************************************************************************)
EXTENDS Integers, Sequences, FiniteSets, TLC

VARIABLES
    disk,                 \* the file .prbrain/embeddings.json
    now,                  \* the wall clock, new Date()
    task,                 \* StorageAdapter calls in flight, one per caller
    calls,                \* number of StorageAdapter calls started
    similarityThreshold,  \* Deduplicator.similarityThreshold
    pc,                   \* position of findDuplicates
    context,              \* its argument (PRContext)
    currentEmbedding,     \* its local currentEmbedding
    vectorSimilar,        \* its local vectorSimilar
    textSimilar,          \* the list the last lexical search returned
    combinedSimilar,      \* its local combinedSimilar
    result,               \* the DeduplicationResult it returned
    trace,                \* the adapter calls findDuplicates has made, in order
    runs,                 \* number of findDuplicates calls started
    parser,               \* a DiffParser at work on a diff text
    text,                 \* calculateTextSimilarity at work on two strings
    cosine,               \* calculateCosineSimilarity at work on two vectors
    tokenizer,            \* a Tokenizer at work on a text
    limiter               \* the store of the rate limiters and their answers

vars == <<disk, now, task, calls, similarityThreshold, pc, context,
          currentEmbedding, vectorSimilar, textSimilar, combinedSimilar, result,
          trace, runs, parser, text, cosine, tokenizer, limiter>>

storeVars == <<disk, task, calls>>
dedupVars == <<similarityThreshold, pc, context, currentEmbedding,
               vectorSimilar, textSimilar, combinedSimilar, result, trace, runs>>
utilVars == <<cosine, tokenizer, limiter>>
pureVars == <<parser, text, utilVars>>

----------------------------------------------------------------------------
(* Bounds of the model *)

MaxTime == 2      \* the clock runs 0..MaxTime
MaxCalls == 3     \* StorageAdapter calls per behaviour (SpecStore)
MaxCapCalls == 1  \* StorageAdapter calls on the full store (SpecCap)
MaxConcCalls == 2 \* overlapping StorageAdapter calls (SpecConc)
MaxRuns == 1      \* findDuplicates calls per behaviour (Spec)
MaxPad == 3       \* PRs, and issues, a lexical search adds to the ones of interest

(* Constants of the program *)

MAX_EMBEDDINGS == 1000      \* storage.ts:72
VECTOR_LIMIT == 20          \* dedup.ts:29
TOP_N == 10                 \* dedup.ts:48
FALLBACK_TOP_N == 5         \* dedup.ts:78
DUPLICATE_BAR == 900        \* dedup.ts:51, 0.9 in thousandths
EMBEDDING_VERSION == "1.0"  \* config/defaults.ts:26

Scale == 10 * 10 * 10       \* thousandths

----------------------------------------------------------------------------
(* Sequences *)

Range(s) == {s[i] : i \in 1..Len(s)}

Min(a, b) == IF a <= b THEN a ELSE b

Max(a, b) == IF a >= b THEN a ELSE b

\* Array.prototype.slice(0, n)
Slice(s, n) == SubSeq(s, 1, Min(n, Len(s)))

----------------------------------------------------------------------------
(* StorageAdapter *)

createEmbeddingId(type, number) == <<type, number>>

EmbeddingData(type, number, title, embedding, createdAt) ==
    [id |-> createEmbeddingId(type, number), type |-> type, number |-> number,
     title |-> title, embedding |-> embedding, createdAt |-> createdAt]

createEmptyEmbeddings(t) ==
    [version |-> EMBEDDING_VERSION, embeddings |-> <<>>, lastUpdated |-> t]

\* a load that takes a file of another version as it is
loadIgnoringVersion(d, t) ==
    IF d.kind = "ok"
    THEN [version |-> d.version, embeddings |-> d.embeddings,
          lastUpdated |-> d.lastUpdated]
    ELSE createEmptyEmbeddings(t)

\* readFile + JSON.parse + the version check; every failure (ENOENT, any
\* other readFile error, a SyntaxError of JSON.parse) gives the empty
\* collection
loadEmbeddings(d, t) ==
    IF d.kind = "ok" /\ d.version = EMBEDDING_VERSION
    THEN [version |-> d.version, embeddings |-> d.embeddings,
          lastUpdated |-> d.lastUpdated]
    ELSE createEmptyEmbeddings(t)

\* what writeFile leaves on disk: the collection stamped with lastUpdated
savedFile(coll, t) ==
    [kind |-> "ok", version |-> coll.version, embeddings |-> coll.embeddings,
     lastUpdated |-> t]

\* embeddings.sort((a, b) => Date(b.createdAt) - Date(a.createdAt)): a stable
\* sort, newest first
SortByCreatedAtDesc(s) == SortSeq(s, LAMBDA a, b : a.createdAt > b.createdAt)

\* addEmbedding without its filter: the old record of the id stays
upsertSortedKeepingOld(embeddings, embedding) ==
    SortByCreatedAtDesc(Append(embeddings, embedding))

\* the list addEmbedding has after filter, push and sort, before the trim
upsertSorted(embeddings, embedding) ==
    SortByCreatedAtDesc(
        Append(SelectSeq(embeddings, LAMBDA e : e.id # embedding.id), embedding))

\* a trim that keeps the tail of the list, the oldest records
trimKeepingOldest(embeddings) ==
    IF Len(embeddings) > MAX_EMBEDDINGS
    THEN SubSeq(embeddings, Len(embeddings) - MAX_EMBEDDINGS + 1, Len(embeddings))
    ELSE embeddings

\* the trim to MAX_EMBEDDINGS
trimEmbeddings(embeddings) ==
    IF Len(embeddings) > MAX_EMBEDDINGS
    THEN Slice(embeddings, MAX_EMBEDDINGS)
    ELSE embeddings

\* addEmbedding between its load and its save
upsertEmbedding(coll, embedding) ==
    [coll EXCEPT !.embeddings = trimEmbeddings(upsertSorted(coll.embeddings, embedding))]

Dot(a, b) == LET RECURSIVE sum(_)
                 sum(i) == IF i = 0 THEN 0 ELSE a[i] * b[i] + sum(i - 1)
             IN sum(Len(a))

\* Math.sqrt on the squared magnitudes the model uses (perfect squares)
Sqrt(n) == CHOOSE r \in 0..n : r * r <= n /\ (r + 1) * (r + 1) > n

\* a cosine whose magnitude is taken from the first vector alone
cosineByFirstMagnitude(a, b) ==
    IF Len(a) # Len(b) THEN [threw |-> TRUE, value |-> 0]
    ELSE LET dotProduct == Dot(a, b)
             magnitude == Sqrt(Dot(a, a)) * Sqrt(Dot(a, a))
         IN [threw |-> FALSE,
             value |-> IF magnitude = 0 THEN 0 ELSE (dotProduct * Scale) \div magnitude]

\* calculateCosineSimilarity: [threw, value], value in thousandths; it throws
\* on a length mismatch and is 0 when a magnitude is 0
calculateCosineSimilarity(a, b) ==
    IF Len(a) # Len(b) THEN [threw |-> TRUE, value |-> 0]
    ELSE LET dotProduct == Dot(a, b)
             magnitude == Sqrt(Dot(a, a)) * Sqrt(Dot(b, b))
         IN [threw |-> FALSE,
             value |-> IF magnitude = 0 THEN 0 ELSE (dotProduct * Scale) \div magnitude]

WithSimilarity(e, s) ==
    [id |-> e.id, type |-> e.type, number |-> e.number, title |-> e.title,
     embedding |-> e.embedding, createdAt |-> e.createdAt, similarity |-> s]

\* .sort((a, b) => b.similarity - a.similarity): a stable sort, best first
SortBySimilarityDesc(s) == SortSeq(s, LAMBDA a, b : a.similarity > b.similarity)

\* findSimilarEmbeddings passing over the records whose vector has another
\* length than the query
findSimilarSkipping(coll, queryEmbedding, threshold, limit) ==
    LET same == SelectSeq(coll.embeddings,
                          LAMBDA e : Len(e.embedding) = Len(queryEmbedding))
        all == [i \in 1..Len(same) |->
                   WithSimilarity(same[i],
                                  calculateCosineSimilarity(queryEmbedding,
                                                            same[i].embedding).value)]
        similarities == SelectSeq(all, LAMBDA e : e.similarity >= threshold)
    IN [threw |-> FALSE, items |-> Slice(SortBySimilarityDesc(similarities), limit)]

\* findSimilarEmbeddings with similarity > threshold for its filter
findSimilarStrict(coll, queryEmbedding, threshold, limit) ==
    LET cos(i) == calculateCosineSimilarity(queryEmbedding, coll.embeddings[i].embedding)
    IN IF \E i \in 1..Len(coll.embeddings) : cos(i).threw
       THEN [threw |-> TRUE, items |-> <<>>]
       ELSE LET all == [i \in 1..Len(coll.embeddings) |->
                           WithSimilarity(coll.embeddings[i], cos(i).value)]
                similarities == SelectSeq(all, LAMBDA e : e.similarity > threshold)
            IN [threw |-> FALSE,
                items |-> Slice(SortBySimilarityDesc(similarities), limit)]

\* findSimilarEmbeddings after its load: [threw, items]; the loop throws as
\* soon as a stored vector has another length than the query
findSimilar(coll, queryEmbedding, threshold, limit) ==
    LET cos(i) == calculateCosineSimilarity(queryEmbedding, coll.embeddings[i].embedding)
    IN IF \E i \in 1..Len(coll.embeddings) : cos(i).threw
       THEN [threw |-> TRUE, items |-> <<>>]
       ELSE LET all == [i \in 1..Len(coll.embeddings) |->
                           WithSimilarity(coll.embeddings[i], cos(i).value)]
                similarities == SelectSeq(all, LAMBDA e : e.similarity >= threshold)
            IN [threw |-> FALSE,
                items |-> Slice(SortBySimilarityDesc(similarities), limit)]

\* cleanup after its load: the records newer than the cutoff
cleanupKeep(coll, t, olderThanDays) ==
    SelectSeq(coll.embeddings, LAMBDA e : e.createdAt > t - olderThanDays)

----------------------------------------------------------------------------
(* StorageAdapter calls as steps.  Every await (readFile, mkdir, writeFile) *)
(* ends a step; the code between two awaits runs within one step.          *)

Callers == {1, 2}

NoArg == [none |-> TRUE]
NoRet == [kind |-> "none"]

IdleTask == [pc |-> "idle", op |-> "none", arg |-> NoArg,
             local |-> createEmptyEmbeddings(0), ret |-> NoRet,
             before |-> [kind |-> "missing"]]

AllIdle == \A t \in Callers : task[t].pc = "idle"

\* the inputs of the StorageAdapter calls
StoreVectors == {<<1, 0>>, <<4, 3>>}
StoreRecords ==
    {EmbeddingData("pr", n, "t", v, c) : n \in {1, 2}, v \in StoreVectors, c \in 0..MaxTime}
StoreThresholds == {800, 900}
StoreLimits == {1, VECTOR_LIMIT}
StoreDays == {0, 1}

\* a call starts: addEmbedding / findSimilarEmbeddings / cleanup run up to
\* the readFile of loadEmbeddings
StartCall(t, op, arg) ==
    /\ task[t].pc = "idle"
    /\ calls > 0
    /\ calls' = calls - 1
    /\ task' = [task EXCEPT ![t] =
                   [IdleTask EXCEPT !.pc = "load", !.op = op, !.arg = arg,
                                    !.before = disk]]
    /\ UNCHANGED <<disk, now>>

StartAdd(t) == \E e \in StoreRecords : StartCall(t, "addEmbedding", e)

StartFind(t) ==
    \E q \in StoreVectors, th \in StoreThresholds, l \in StoreLimits :
        StartCall(t, "findSimilarEmbeddings",
                  [queryEmbedding |-> q, threshold |-> th, limit |-> l])

StartCleanup(t) ==
    \E d \in StoreDays : StartCall(t, "cleanup", [olderThanDays |-> d])

StartLoad(t) == StartCall(t, "loadEmbeddings", NoArg)

\* loadEmbeddings, storage.ts:14-36, called on its own: the readFile settles
\* and the call returns a collection
LoadDone(t) ==
    /\ task[t].pc = "load" /\ task[t].op = "loadEmbeddings"
    /\ task' = [task EXCEPT ![t].pc = "done",
                            ![t].ret = [kind |-> "collection",
                                        collection |-> loadEmbeddings(disk, now)]]
    /\ UNCHANGED <<disk, now, calls>>

\* addEmbedding, storage.ts:58-76: the load resolves; filter, push, sort and
\* trim; saveEmbeddings starts its mkdir
AddLoad(t) ==
    /\ task[t].pc = "load" /\ task[t].op = "addEmbedding"
    /\ task' = [task EXCEPT ![t].local = upsertEmbedding(loadEmbeddings(disk, now), task[t].arg),
                            ![t].pc = "mkdir"]
    /\ UNCHANGED <<disk, now, calls>>

\* findSimilarEmbeddings, storage.ts:86-103: the load resolves and the call
\* returns or throws
FindLoad(t) ==
    /\ task[t].pc = "load" /\ task[t].op = "findSimilarEmbeddings"
    /\ LET r == findSimilar(loadEmbeddings(disk, now), task[t].arg.queryEmbedding,
                            task[t].arg.threshold, task[t].arg.limit)
       IN task' = [task EXCEPT ![t].pc = "done",
                               ![t].ret = IF r.threw THEN [kind |-> "error"]
                                          ELSE [kind |-> "items", items |-> r.items]]
    /\ UNCHANGED <<disk, now, calls>>

\* cleanup, storage.ts:183-199: the load resolves; filter; save only when a
\* record was removed
CleanupLoad(t) ==
    /\ task[t].pc = "load" /\ task[t].op = "cleanup"
    /\ LET coll == loadEmbeddings(disk, now)
           kept == cleanupKeep(coll, now, task[t].arg.olderThanDays)
           removedCount == Len(coll.embeddings) - Len(kept)
       IN task' = [task EXCEPT ![t].local = [coll EXCEPT !.embeddings = kept],
                               ![t].ret = [kind |-> "count", count |-> removedCount],
                               ![t].pc = IF removedCount > 0 THEN "mkdir" ELSE "done"]
    /\ UNCHANGED <<disk, now, calls>>

\* saveEmbeddings, storage.ts:41-47: mkdir resolves; lastUpdated is stamped
\* and the text to write is fixed
SaveMkdir(t) ==
    /\ task[t].pc = "mkdir"
    /\ task' = [task EXCEPT ![t].local.lastUpdated = now, ![t].pc = "write"]
    /\ UNCHANGED <<disk, now, calls>>

\* saveEmbeddings, storage.ts:48: writeFile resolves and the call returns
SaveWrite(t) ==
    /\ task[t].pc = "write"
    /\ disk' = savedFile(task[t].local, task[t].local.lastUpdated)
    /\ task' = [task EXCEPT ![t].pc = "done",
                            ![t].ret = IF task[t].op = "cleanup" THEN task[t].ret
                                       ELSE [kind |-> "void"]]
    /\ UNCHANGED <<now, calls>>

\* saveEmbeddings, storage.ts:51-54: mkdir or writeFile rejects; the error is
\* rethrown to the caller and the file is left as it was
SaveFail(t) ==
    /\ task[t].pc \in {"mkdir", "write"}
    /\ task' = [task EXCEPT ![t].pc = "done", ![t].ret = [kind |-> "error"]]
    /\ UNCHANGED <<disk, now, calls>>

\* the caller takes the outcome
Return(t) ==
    /\ task[t].pc = "done"
    /\ task' = [task EXCEPT ![t] = IdleTask]
    /\ UNCHANGED <<disk, now, calls>>

Tick ==
    /\ now < MaxTime
    /\ now' = now + 1
    /\ UNCHANGED <<disk, task, calls>>

StoreStep(t) ==
    \/ AddLoad(t)
    \/ FindLoad(t)
    \/ CleanupLoad(t)
    \/ LoadDone(t)
    \/ SaveMkdir(t)
    \/ SaveWrite(t)
    \/ SaveFail(t)
    \/ Return(t)

StoreStart(t) ==
    \/ StartAdd(t)
    \/ StartFind(t)
    \/ StartCleanup(t)
    \/ StartLoad(t)

----------------------------------------------------------------------------
(* Initial files *)

MissingFile == [kind |-> "missing", version |-> "", embeddings |-> <<>>, lastUpdated |-> 0]

\* a file written by an older release: its records are dropped at load
StaleFile ==
    [kind |-> "ok", version |-> "0.9",
     embeddings |-> <<EmbeddingData("pr", 1, "old", <<1, 0>>, 0)>>, lastUpdated |-> 0]

\* a file readFile rejects for another reason than ENOENT (EACCES, EISDIR)
UnreadableFile ==
    [kind |-> "unreadable", version |-> EMBEDDING_VERSION,
     embeddings |-> <<EmbeddingData("pr", 1, "kept", <<1, 0>>, 0)>>, lastUpdated |-> 0]

\* a file whose text JSON.parse rejects (a write cut short)
CorruptFile ==
    [kind |-> "corrupt", version |-> EMBEDDING_VERSION,
     embeddings |-> <<EmbeddingData("pr", 1, "cut", <<1, 0>>, 0)>>, lastUpdated |-> 0]

\* a store that has reached its cap: MAX_EMBEDDINGS records, newest first
Filler(i) ==
    EmbeddingData("issue", 100 + i, "f", IF i % 2 = 0 THEN <<1, 0>> ELSE <<4, 3>>,
                  IF 5 * i <= 2 * MAX_EMBEDDINGS THEN 2
                  ELSE IF 5 * i <= 4 * MAX_EMBEDDINGS THEN 1 ELSE 0)

\* a store after three upserts
SmallFile ==
    [kind |-> "ok", version |-> EMBEDDING_VERSION,
     embeddings |-> <<Filler(1), Filler(2), Filler(3)>>, lastUpdated |-> 0]

FullFile ==
    [kind |-> "ok", version |-> EMBEDDING_VERSION,
     embeddings |-> [i \in 1..MAX_EMBEDDINGS |-> Filler(i)], lastUpdated |-> 0]

NoEmbedding == EmbeddingData("pr", 0, "", <<>>, 0)

NoResult ==
    [settled |-> "pending", similarItems |-> <<>>, isDuplicate |-> FALSE,
     duplicateThreshold |-> 0]

\* no diff is being parsed, no strings are being compared
ParserIdle == [pc |-> "idle"]
TextIdle == [pc |-> "idle"]

\* no vectors are being compared, no text is being truncated, no rate
\* limiter has been called
CosineIdle == [pc |-> "idle"]
TokenizerIdle == [pc |-> "idle"]
LimiterIdle == [pc |-> "idle"]

UtilIdle == cosine = CosineIdle /\ tokenizer = TokenizerIdle /\ limiter = LimiterIdle

PureIdle == parser = ParserIdle /\ text = TextIdle /\ UtilIdle

DedupIdle ==
    /\ similarityThreshold = 800
    /\ pc = "idle"
    /\ context = [number |-> 0, title |-> ""]
    /\ currentEmbedding = NoEmbedding
    /\ vectorSimilar = <<>>
    /\ textSimilar = <<>>
    /\ combinedSimilar = <<>>
    /\ result = NoResult
    /\ trace = <<>>
    /\ runs = 0

\* sequential use of the store: one call at a time
InitStore ==
    /\ disk \in {MissingFile, UnreadableFile, CorruptFile, StaleFile, SmallFile}
    /\ now = 0
    /\ task = [t \in Callers |-> IdleTask]
    /\ calls = MaxCalls
    /\ DedupIdle
    /\ PureIdle

NextStore ==
    \/ StoreStart(1) /\ UNCHANGED <<dedupVars, pureVars>>
    \/ StoreStep(1) /\ UNCHANGED <<dedupVars, pureVars>>
    \/ Tick /\ UNCHANGED <<dedupVars, pureVars>>

SpecStore == InitStore /\ [][NextStore]_vars

\* sequential use of a store that has reached its cap
InitCap ==
    /\ disk = FullFile
    /\ now = MaxTime
    /\ task = [t \in Callers |-> IdleTask]
    /\ calls = MaxCapCalls
    /\ DedupIdle
    /\ PureIdle

NextCap ==
    \/ StoreStart(1) /\ UNCHANGED <<dedupVars, pureVars>>
    \/ StoreStep(1) /\ UNCHANGED <<dedupVars, pureVars>>

SpecCap == InitCap /\ [][NextCap]_vars

\* overlapping calls: nothing in StorageAdapter orders two calls, so the
\* steps of two callers interleave at every await
InitConc ==
    /\ disk = MissingFile
    /\ now = 0
    /\ task = [t \in Callers |-> IdleTask]
    /\ calls = MaxConcCalls
    /\ DedupIdle
    /\ PureIdle

NextConc ==
    \/ \E t \in Callers : StoreStart(t) /\ UNCHANGED <<dedupVars, pureVars>>
    \/ \E t \in Callers : StoreStep(t) /\ UNCHANGED <<dedupVars, pureVars>>
    \/ Tick /\ UNCHANGED <<dedupVars, pureVars>>

SpecConc == InitConc /\ [][NextConc]_vars

----------------------------------------------------------------------------
(* Deduplicator *)

\* the factor of the vector search threshold, similarityThreshold * 0.7
\* a query at the configured threshold itself
sameThreshold(threshold) == threshold

loweredThreshold(threshold) == (threshold * 7) \div 10

KeyOf(item) == <<item.type, item.number>>

\* createItemUrl ignores the type
createItemUrl(type, number) == <<"https://github.com/pull", number>>

\* the SimilarItem made of a vector result, dedup.ts:133-140
FromVector(item) ==
    [type |-> item.type, number |-> item.number, title |-> item.title,
     similarity |-> item.similarity, status |-> "open",
     url |-> createItemUrl(item.type, item.number)]

IsCurrentPR(item, currentPRNumber) ==
    item.number = currentPRNumber /\ item.type = "pr"

\* Map.get / Map.set on a Map kept as the list of its values in insertion
\* order: a key that is set again keeps its place
MapIndex(combined, key) ==
    IF \E i \in 1..Len(combined) : KeyOf(combined[i]) = key
    THEN CHOOSE i \in 1..Len(combined) : KeyOf(combined[i]) = key
    ELSE 0

MapSet(combined, item) ==
    IF MapIndex(combined, KeyOf(item)) = 0
    THEN Append(combined, item)
    ELSE [combined EXCEPT ![MapIndex(combined, KeyOf(item))] = item]

\* the merge of a lexical item into the entry of its key with 0.7/0.3
\* alone, without the Math.max
mergeWeightedOnly(existing, item) ==
    [existing EXCEPT !.similarity = (existing.similarity * 7 + item.similarity * 3) \div 10,
                     !.status = item.status,
                     !.url = item.url]

\* the merge of a lexical item into the entry of its key, dedup.ts:153-159
mergeExisting(existing, item) ==
    [existing EXCEPT !.similarity =
                         Max(existing.similarity,
                             (existing.similarity * 7 + item.similarity * 3) \div 10),
                     !.status = item.status,
                     !.url = item.url]

\* the Map after the loop over the vector results, dedup.ts:126-141: one
\* entry per key other than the current PR, at the place of the key's first
\* item, made of the key's last item
vectorLoop(vs, currentPRNumber) ==
    LET others == SelectSeq([i \in 1..Len(vs) |-> [at |-> i, item |-> vs[i]]],
                            LAMBDA e : ~IsCurrentPR(e.item, currentPRNumber))
        firsts == SelectSeq(others,
                            LAMBDA e : \A j \in 1..(e.at - 1) : KeyOf(vs[j]) # KeyOf(e.item))
        last(key) == CHOOSE i \in 1..Len(vs) :
                         /\ KeyOf(vs[i]) = key
                         /\ \A j \in (i + 1)..Len(vs) : KeyOf(vs[j]) # key
    IN [k \in 1..Len(firsts) |-> FromVector(vs[last(KeyOf(firsts[k].item))])]

\* a loop over the lexical results that adds every item as a new entry
textLoopAppending(vs, ts, i, currentPRNumber) ==
    vectorLoop(vs, currentPRNumber)
        \o SelectSeq(SubSeq(ts, 1, i), LAMBDA item : ~IsCurrentPR(item, currentPRNumber))

\* the Map after the vector results and the first i lexical results,
\* dedup.ts:144-163
RECURSIVE textLoop(_, _, _, _)
textLoop(vs, ts, i, currentPRNumber) ==
    IF i = 0 THEN vectorLoop(vs, currentPRNumber)
    ELSE LET combined == textLoop(vs, ts, i - 1, currentPRNumber)
             existing == MapIndex(combined, KeyOf(ts[i]))
         IN IF IsCurrentPR(ts[i], currentPRNumber) THEN combined
            ELSE IF existing # 0
            THEN [combined EXCEPT ![existing] = mergeExisting(combined[existing], ts[i])]
            ELSE MapSet(combined, ts[i])

\* dedup.ts:118-168
combineAndRankSimilarItems(vs, ts, currentPRNumber) ==
    SortBySimilarityDesc(textLoop(vs, ts, Len(ts), currentPRNumber))

\* a verdict that flags any similar item as a duplicate
isDuplicateWhenAny(similarItems) == Len(similarItems) > 0

\* dedup.ts:51 and :82
isDuplicateOf(similarItems) ==
    Len(similarItems) > 0 /\ similarItems[1].similarity >= DUPLICATE_BAR

\* the result of the try block, dedup.ts:45-64
mainResult(combined, threshold) ==
    LET similarItems == Slice(SelectSeq(combined, LAMBDA item : item.similarity >= threshold),
                              TOP_N)
    IN [settled |-> "resolved", similarItems |-> similarItems,
        isDuplicate |-> isDuplicateOf(similarItems), duplicateThreshold |-> threshold]

\* the result of the text-only fallback, dedup.ts:76-84
fallbackResult(ts, threshold) ==
    LET similarItems == Slice(SelectSeq(ts, LAMBDA item : item.similarity >= threshold),
                              FALLBACK_TOP_N)
    IN [settled |-> "resolved", similarItems |-> similarItems,
        isDuplicate |-> isDuplicateOf(similarItems), duplicateThreshold |-> threshold]

\* a fallback that lets the error of its search out
failedRethrown(threshold) ==
    [settled |-> "rejected", similarItems |-> <<>>, isDuplicate |-> FALSE,
     duplicateThreshold |-> threshold]

\* the result when the fallback search fails too, dedup.ts:85-93
failedResult(threshold) ==
    [settled |-> "resolved", similarItems |-> <<>>, isDuplicate |-> FALSE,
     duplicateThreshold |-> threshold]

----------------------------------------------------------------------------
(* The collaborators of findDuplicates: what the embedding service and the *)
(* lexical search may answer                                                *)

PRNumbers == {1, 2}

\* generateEmbedding: vectors of two lengths (two embedding models)
EmbedVectors == {<<1, 0>>, <<3, 4>>, <<1, 0, 0>>}

LexicalItem(type, number, similarity) ==
    [type |-> type, number |-> number, title |-> "gh", similarity |-> similarity,
     status |-> "merged", url |-> <<"html_url", type, number>>]

\* the similarity the search reports for an item of interest; 0 for absent
LexSims == {0, 700, 850, 1000}

\* the other items a search returns: MaxPad PRs and MaxPad issues, each
\* list with decreasing similarity
PadItems ==
    [i \in 1..(2 * MaxPad) |->
        IF i <= MaxPad THEN LexicalItem("pr", 200 + i, 1000 - 40 * i)
        ELSE LexicalItem("issue", 200 + i - MaxPad, 990 - 40 * (i - MaxPad))]

\* findSimilarPRsAndIssues returns PR results, then issue results, sorted by
\* similarity, best first (github.ts:187)
LexicalResults ==
    {SortBySimilarityDesc(
         SelectSeq(<<LexicalItem("pr", 1, s1), LexicalItem("pr", 2, s2),
                     LexicalItem("issue", 103, s3)>>,
                   LAMBDA item : item.similarity > 0) \o pad) :
        s1 \in LexSims, s2 \in LexSims, s3 \in LexSims, pad \in {<<>>, PadItems}}

----------------------------------------------------------------------------
(* findDuplicates as steps, one per await *)

\* an awaited call, how it settled, and what it was given (for
\* generateEmbedding: what it gave)
CalledWith(call, ok, arg) == [call |-> call, ok |-> ok, arg |-> arg]

Called(call, ok) == CalledWith(call, ok, NoArg)

\* findDuplicates(context) runs up to the await of generateEmbedding
Call ==
    /\ pc = "idle"
    /\ runs < MaxRuns
    /\ runs' = runs + 1
    /\ \E n \in PRNumbers : context' = [number |-> n, title |-> "new"]
    /\ pc' = "embed"
    /\ currentEmbedding' = NoEmbedding
    /\ vectorSimilar' = <<>>
    /\ textSimilar' = <<>>
    /\ combinedSimilar' = <<>>
    /\ result' = NoResult
    /\ trace' = <<>>
    /\ UNCHANGED <<disk, now, task, calls, similarityThreshold>>

\* createPREmbedding, dedup.ts:97-116: the embedding arrives
EmbedOk ==
    /\ pc = "embed"
    /\ \E v \in EmbedVectors :
           /\ currentEmbedding' = EmbeddingData("pr", context.number, context.title, v, now)
           /\ trace' = Append(trace, CalledWith("generateEmbedding", TRUE, [embedding |-> v]))
    /\ pc' = "add"
    /\ UNCHANGED <<disk, now, task, calls, similarityThreshold, context, vectorSimilar,
                   textSimilar, combinedSimilar, result, runs>>

\* generateEmbedding rejects: the catch block takes over
EmbedFail ==
    /\ pc = "embed"
    /\ trace' = Append(trace, Called("generateEmbedding", FALSE))
    /\ pc' = "fallback"
    /\ UNCHANGED <<disk, now, task, calls, similarityThreshold, context, currentEmbedding,
                   vectorSimilar, textSimilar, combinedSimilar, result, runs>>

\* storage.addEmbedding(currentEmbedding), dedup.ts:23; one analysis runs at
\* a time, so nothing else touches the file during the call
AddOk ==
    /\ pc = "add"
    /\ disk' = savedFile(upsertEmbedding(loadEmbeddings(disk, now), currentEmbedding), now)
    /\ trace' = Append(trace, CalledWith("addEmbedding", TRUE, currentEmbedding))
    /\ pc' = "query"
    /\ UNCHANGED <<now, task, calls, similarityThreshold, context, currentEmbedding,
                   vectorSimilar, textSimilar, combinedSimilar, result, runs>>

\* addEmbedding rejects (saveEmbeddings rethrows a failed write)
AddFail ==
    /\ pc = "add"
    /\ trace' = Append(trace, CalledWith("addEmbedding", FALSE, currentEmbedding))
    /\ pc' = "fallback"
    /\ UNCHANGED <<disk, now, task, calls, similarityThreshold, context, currentEmbedding,
                   vectorSimilar, textSimilar, combinedSimilar, result, runs>>

\* storage.findSimilarEmbeddings(embedding, threshold * 0.7, 20), dedup.ts:26-30:
\* it returns, or throws on a stored vector of another length
Query ==
    /\ pc = "query"
    /\ LET arg == [queryEmbedding |-> currentEmbedding.embedding,
                   threshold |-> loweredThreshold(similarityThreshold),
                   limit |-> VECTOR_LIMIT]
           r == findSimilar(loadEmbeddings(disk, now), arg.queryEmbedding,
                            arg.threshold, arg.limit)
       IN /\ vectorSimilar' = r.items
          /\ trace' = Append(trace, CalledWith("findSimilarEmbeddings", ~r.threw, arg))
          /\ pc' = IF r.threw THEN "fallback" ELSE "lexical"
    /\ UNCHANGED <<disk, now, task, calls, similarityThreshold, context, currentEmbedding,
                   textSimilar, combinedSimilar, result, runs>>

\* github.findSimilarPRsAndIssues resolves in the try block; combine, filter,
\* verdict, dedup.ts:33-64
LexicalOk ==
    /\ pc = "lexical"
    /\ \E ts \in LexicalResults :
           /\ textSimilar' = ts
           /\ combinedSimilar' =
                  combineAndRankSimilarItems(vectorSimilar, ts, context.number)
           /\ result' = mainResult(combinedSimilar', similarityThreshold)
    /\ trace' = Append(trace, Called("findSimilarPRsAndIssues", TRUE))
    /\ pc' = "done"
    /\ UNCHANGED <<disk, now, task, calls, similarityThreshold, context, currentEmbedding,
                   vectorSimilar, runs>>

\* the search rejects in the try block: the catch block takes over
LexicalFail ==
    /\ pc = "lexical"
    /\ trace' = Append(trace, Called("findSimilarPRsAndIssues", FALSE))
    /\ pc' = "fallback"
    /\ UNCHANGED <<disk, now, task, calls, similarityThreshold, context, currentEmbedding,
                   vectorSimilar, textSimilar, combinedSimilar, result, runs>>

\* the search of the catch block resolves, dedup.ts:70-84
FallbackOk ==
    /\ pc = "fallback"
    /\ \E ts \in LexicalResults :
           /\ textSimilar' = ts
           /\ result' = fallbackResult(ts, similarityThreshold)
    /\ trace' = Append(trace, Called("findSimilarPRsAndIssues", TRUE))
    /\ pc' = "done"
    /\ UNCHANGED <<disk, now, task, calls, similarityThreshold, context, currentEmbedding,
                   vectorSimilar, combinedSimilar, runs>>

\* the search of the catch block rejects, dedup.ts:85-93
FallbackFail ==
    /\ pc = "fallback"
    /\ result' = failedResult(similarityThreshold)
    /\ trace' = Append(trace, Called("findSimilarPRsAndIssues", FALSE))
    /\ pc' = "done"
    /\ UNCHANGED <<disk, now, task, calls, similarityThreshold, context, currentEmbedding,
                   vectorSimilar, textSimilar, combinedSimilar, runs>>

\* the caller has the result; the Deduplicator is ready for the next PR
Finish ==
    /\ pc = "done"
    /\ pc' = "idle"
    /\ UNCHANGED <<disk, now, task, calls, similarityThreshold, context, currentEmbedding,
                   vectorSimilar, textSimilar, combinedSimilar, result, trace, runs>>

\* time passes between two analyses
DedupTick ==
    /\ pc = "idle"
    /\ Tick
    /\ UNCHANGED dedupVars

\* a store of 25 records: PR 2, then issues 102..125
MidRecord(i) ==
    EmbeddingData(IF i = 1 THEN "pr" ELSE "issue", IF i = 1 THEN 2 ELSE 100 + i, "stored",
                  IF i <= 2 THEN <<3, 4>> ELSE IF i = 3 THEN <<4, 3>> ELSE <<1, 0>>, 1)

MidFile ==
    [kind |-> "ok", version |-> EMBEDDING_VERSION,
     embeddings |-> [i \in 1..25 |-> MidRecord(i)], lastUpdated |-> 1]

Init ==
    /\ disk \in {MissingFile, MidFile}
    /\ now = 0
    /\ task = [t \in Callers |-> IdleTask]
    /\ calls = 0
    /\ similarityThreshold \in {800, 950}
    /\ pc = "idle"
    /\ context = [number |-> 0, title |-> ""]
    /\ currentEmbedding = NoEmbedding
    /\ vectorSimilar = <<>>
    /\ textSimilar = <<>>
    /\ combinedSimilar = <<>>
    /\ result = NoResult
    /\ trace = <<>>
    /\ runs = 0
    /\ PureIdle

Next ==
    \/ Call /\ UNCHANGED pureVars
    \/ EmbedOk /\ UNCHANGED pureVars
    \/ EmbedFail /\ UNCHANGED pureVars
    \/ AddOk /\ UNCHANGED pureVars
    \/ AddFail /\ UNCHANGED pureVars
    \/ Query /\ UNCHANGED pureVars
    \/ LexicalOk /\ UNCHANGED pureVars
    \/ LexicalFail /\ UNCHANGED pureVars
    \/ FallbackOk /\ UNCHANGED pureVars
    \/ FallbackFail /\ UNCHANGED pureVars
    \/ Finish /\ UNCHANGED pureVars
    \/ DedupTick /\ UNCHANGED pureVars

Spec == Init /\ [][Next]_vars

----------------------------------------------------------------------------
(* Claims about findDuplicates *)

Returned == pc = "done"

Items == result.similarItems

EmbedFailed == Len(trace) >= 1 /\ ~trace[1].ok

\* embedding, upsert and vector query all succeeded
VectorStageOk == Len(trace) >= 3 /\ trace[1].ok /\ trace[2].ok /\ trace[3].ok

\* the try block ran to its end
MainPath == Returned /\ VectorStageOk /\ Len(trace) = 4 /\ trace[4].ok

LastCallFailed == ~trace[Len(trace)].ok

OwnPR(item) == item.type = "pr" /\ item.number = context.number

\* the candidates of a list, keyed by (type, number), the PR itself left out
Keys(items) == {KeyOf(items[i]) : i \in {j \in 1..Len(items) : ~OwnPR(items[j])}}

ItemOf(items, key) == items[CHOOSE i \in 1..Len(items) : KeyOf(items[i]) = key]

\* the similarity section 4.4 gives a key from its vector similarity and
\* its lexical similarity
Merged(vs, ts, key) ==
    IF key \in Keys(vs) /\ key \in Keys(ts)
    THEN Max(ItemOf(vs, key).similarity,
             (7 * ItemOf(vs, key).similarity + 3 * ItemOf(ts, key).similarity) \div 10)
    ELSE IF key \in Keys(vs) THEN ItemOf(vs, key).similarity
    ELSE ItemOf(ts, key).similarity

\* C1: the result never holds the PR under analysis, (pr, context.number),
\* whatever the vector query and the lexical search returned and whichever
\* path produced the result.
C1_NeverOwnPR ==
    Returned => \A i \in 1..Len(Items) : ~OwnPR(Items[i])

\* C2: findDuplicates resolves, it never rejects: its result carries the
\* configured threshold, and when the embedding call and the lexical search
\* both failed the result is empty with isDuplicate = FALSE.
C2_NeverPropagates ==
    Returned =>
        /\ result.settled = "resolved"
        /\ result.duplicateThreshold = similarityThreshold
        /\ (EmbedFailed /\ LastCallFailed) => (Items = <<>> /\ ~result.isDuplicate)

\* the embedding call and the search of the fallback have both failed
C2_Witness ==
    Returned /\ EmbedFailed /\ LastCallFailed /\ result.settled = "resolved"

\* C3: the lexical search is invoked on every path, and when embedding,
\* upsert and vector query succeeded and the lexical search then failed,
\* the result still holds every vector candidate, other than the PR itself,
\* at or above the configured threshold (as far as the cap of ten allows).
C3_IndependentStages ==
    Returned =>
        /\ \E i \in 1..Len(trace) : trace[i].call = "findSimilarPRsAndIssues"
        /\ (VectorStageOk /\ ~trace[4].ok) =>
               LET passing == {k \in Keys(vectorSimilar) :
                                   ItemOf(vectorSimilar, k).similarity >= similarityThreshold}
               IN Cardinality(passing) <= TOP_N => passing \subseteq Keys(Items)

\* the candidates findDuplicates had in hand: vector and lexical ones on the
\* combined path, lexical ones on the fallback path
CandidateVectors == IF MainPath THEN vectorSimilar ELSE <<>>

PassingKeys ==
    {k \in Keys(CandidateVectors) \union Keys(textSimilar) :
         Merged(CandidateVectors, textSimilar, k) >= similarityThreshold}

\* C4: on the combined path and on the fallback path alike, similarItems is
\* the merged candidates, the PR itself left out, that reach the configured
\* threshold: sorted best first and cut to the first ten.
C4_ThresholdSortCap ==
    (Returned /\ ~LastCallFailed) =>
        /\ \A i \in 1..Len(Items) :
               /\ Items[i].similarity >= similarityThreshold
               /\ KeyOf(Items[i]) \in PassingKeys
               /\ Items[i].similarity = Merged(CandidateVectors, textSimilar, KeyOf(Items[i]))
        /\ \A i \in 1..(Len(Items) - 1) : Items[i].similarity >= Items[i + 1].similarity
        /\ Len(Items) = Min(TOP_N, Cardinality(PassingKeys))

\* C5: combineAndRankSimilarItems gives one candidate per key; a key of both
\* lists has similarity max(v, 0.7 v + 0.3 l), never below v, with the status
\* and the url of the lexical item; a key of one list keeps its similarity.
C5_CombineByKey ==
    MainPath =>
        LET vs == vectorSimilar
            ts == textSimilar
            c == combinedSimilar
        IN /\ {KeyOf(c[j]) : j \in 1..Len(c)} = Keys(vs) \union Keys(ts)
           /\ \A i, j \in 1..Len(c) : KeyOf(c[i]) = KeyOf(c[j]) => i = j
           /\ \A j \in 1..Len(c) :
                  LET k == KeyOf(c[j])
                  IN IF k \in Keys(vs) /\ k \in Keys(ts)
                     THEN LET v == ItemOf(vs, k).similarity
                              l == ItemOf(ts, k).similarity
                          IN /\ c[j].similarity = Max(v, (7 * v + 3 * l) \div 10)
                             /\ c[j].similarity >= v
                             /\ c[j].status = ItemOf(ts, k).status
                             /\ c[j].url = ItemOf(ts, k).url
                     ELSE IF k \in Keys(vs)
                     THEN c[j].similarity = ItemOf(vs, k).similarity
                     ELSE c[j].similarity = ItemOf(ts, k).similarity

\* a key of both lists was raised by its lexical similarity, another one of
\* both lists kept its vector similarity against a lower lexical one
C5_Witness ==
    /\ MainPath
    /\ \E k \in Keys(vectorSimilar) \intersect Keys(textSimilar) :
           /\ ItemOf(textSimilar, k).similarity > ItemOf(vectorSimilar, k).similarity
           /\ ItemOf(combinedSimilar, k).similarity > ItemOf(vectorSimilar, k).similarity
    /\ \E k \in Keys(vectorSimilar) \intersect Keys(textSimilar) :
           /\ ItemOf(textSimilar, k).similarity < ItemOf(vectorSimilar, k).similarity
           /\ ItemOf(combinedSimilar, k).similarity = ItemOf(vectorSimilar, k).similarity

\* C6: isDuplicate is TRUE exactly when the result has a first item and its
\* similarity is at least 0.9, whatever the configured threshold.
C6_DuplicateBar ==
    Returned =>
        (result.isDuplicate <=> (Len(Items) > 0 /\ Items[1].similarity >= DUPLICATE_BAR))

\* a best candidate that passes the configured threshold and is below 0.9:
\* candidates are returned and isDuplicate is FALSE
C6_Witness ==
    /\ Returned
    /\ Len(Items) > 0
    /\ Items[1].similarity >= similarityThreshold
    /\ Items[1].similarity < DUPLICATE_BAR
    /\ ~result.isDuplicate

----------------------------------------------------------------------------
(* Claims about the StorageAdapter *)

Ids(embeddings) == {embeddings[i].id : i \in 1..Len(embeddings)}

UniqueIds(embeddings) ==
    \A i, j \in 1..Len(embeddings) : embeddings[i].id = embeddings[j].id => i = j

\* the records a load of file d gives
Stored(d) == IF d.kind = "ok" /\ d.version = EMBEDDING_VERSION THEN d.embeddings ELSE <<>>

AddReturned(t) ==
    task[t].pc = "done" /\ task[t].op = "addEmbedding" /\ task[t].ret.kind = "void"

\* C7: two overlapping addEmbedding calls with distinct ids that started on
\* the same file leave both records in the file once both have returned
\* (no lost update).
C7_NoLostUpdate ==
    (/\ AddReturned(1) /\ AddReturned(2)
     /\ task[1].arg.id # task[2].arg.id
     /\ task[1].before = task[2].before)
    => {task[1].arg.id, task[2].arg.id} \subseteq Ids(Stored(disk))

\* C8: after addEmbedding returns, no two persisted records share an id, the
\* record persisted under the upserted id is the one just given (an id that
\* was already stored is replaced, not refused), and, below the cap, every
\* record that was stored under another id is still there.
C8_UpsertReplacesById ==
    /\ UniqueIds(Stored(disk))
    /\ AddReturned(1) =>
         LET old == Stored(task[1].before)
             e == task[1].arg
         IN /\ Len(old) < MAX_EMBEDDINGS =>
                 /\ \E i \in 1..Len(disk.embeddings) : disk.embeddings[i] = e
                 /\ \A i \in 1..Len(old) :
                        old[i].id # e.id => old[i] \in Range(disk.embeddings)
            /\ \A i \in 1..Len(disk.embeddings) :
                   disk.embeddings[i].id = e.id => disk.embeddings[i] = e

\* an addEmbedding has replaced a stored record by another one with its id,
\* and a record with another id was kept
C8_Witness ==
    /\ AddReturned(1)
    /\ \E i \in 1..Len(Stored(task[1].before)) :
           /\ Stored(task[1].before)[i].id = task[1].arg.id
           /\ Stored(task[1].before)[i] # task[1].arg
    /\ \E i \in 1..Len(Stored(task[1].before)) :
           /\ Stored(task[1].before)[i].id # task[1].arg.id
           /\ Stored(task[1].before)[i] \in Range(disk.embeddings)

\* the records addEmbedding had in hand (the stored ones and the new one)
\* that the file no longer holds under their id
Evicted(t) ==
    LET keptIds == Ids(disk.embeddings)
    IN SelectSeq(Append(Stored(task[t].before), task[t].arg),
                 LAMBDA e : e.id \notin keptIds)

\* C9: the persisted list is sorted by createdAt, newest first, and holds at
\* most MAX_EMBEDDINGS records; the records an addEmbedding dropped are the
\* oldest: none of them is newer than a record it kept.
C9_SortedAndCapped ==
    /\ Len(disk.embeddings) <= MAX_EMBEDDINGS
    /\ \A i \in 1..(Len(disk.embeddings) - 1) :
           disk.embeddings[i].createdAt >= disk.embeddings[i + 1].createdAt
    /\ AddReturned(1) =>
           LET evicted == Evicted(1)
               oldestKept == disk.embeddings[Len(disk.embeddings)].createdAt
           IN \A i \in 1..Len(evicted) : oldestKept >= evicted[i].createdAt

\* an addEmbedding on a full store has dropped a stored record and kept the
\* new one
C9_Witness ==
    /\ AddReturned(1)
    /\ Len(Stored(task[1].before)) = MAX_EMBEDDINGS
    /\ Len(disk.embeddings) = MAX_EMBEDDINGS
    /\ task[1].arg \in Range(disk.embeddings)
    /\ Len(Evicted(1)) = 1

FindReturned(t) ==
    task[t].pc = "done" /\ task[t].op = "findSimilarEmbeddings" /\ task[t].ret.kind = "items"

\* the cosine of stored record e with the query, in thousandths
CosineWith(q, e) == calculateCosineSimilarity(q, e.embedding).value

\* C10: findSimilarEmbeddings returns stored records only, each with its
\* cosine similarity, none below the threshold, best first, as many as the
\* limit allows, the ones left out being no better than the ones returned;
\* the file is as it was when the call started.
C10_FindSimilarExact ==
    FindReturned(1) =>
        LET items == task[1].ret.items
            q == task[1].arg.queryEmbedding
            stored == Stored(task[1].before)
            passing == {i \in 1..Len(stored) : CosineWith(q, stored[i]) >= task[1].arg.threshold}
        IN /\ \A k \in 1..Len(items) :
                  /\ items[k].similarity >= task[1].arg.threshold
                  /\ \E i \in passing :
                         items[k] = WithSimilarity(stored[i], CosineWith(q, stored[i]))
           /\ \A k \in 1..(Len(items) - 1) : items[k].similarity >= items[k + 1].similarity
           /\ \A j, k \in 1..Len(items) : items[j].id = items[k].id => j = k
           /\ Len(items) = Min(task[1].arg.limit, Cardinality(passing))
           /\ \A i \in passing :
                  stored[i].id \notin Ids(items) =>
                      CosineWith(q, stored[i]) <= items[Len(items)].similarity
           /\ disk = task[1].before

\* a query has returned some stored records, left one out for being below
\* the threshold and another one for the limit
C10_Witness ==
    /\ FindReturned(1)
    /\ Len(task[1].ret.items) = task[1].arg.limit
    /\ \E i \in 1..Len(Stored(disk)) :
           CosineWith(task[1].arg.queryEmbedding, Stored(disk)[i]) < task[1].arg.threshold
    /\ \E i \in 1..Len(Stored(disk)) :
           /\ CosineWith(task[1].arg.queryEmbedding, Stored(disk)[i]) >= task[1].arg.threshold
           /\ Stored(disk)[i].id \notin Ids(task[1].ret.items)

LoadReturned(t) == task[t].pc = "done" /\ task[t].op = "loadEmbeddings"

CleanupLoaded(t) ==
    task[t].pc = "load" /\ task[t].op = "cleanup" /\ task'[t].pc # "load"

\* C11: cleanup(days) removes exactly the records created strictly before
\* now - days and keeps the others, counts what it removed, and saves if and
\* only if it removed a record, leaving the file as it is otherwise.
C11_CleanupExact ==
    [][CleanupLoaded(1) =>
           LET coll == loadEmbeddings(disk, now)
               cutoff == now - task[1].arg.olderThanDays
               older == SelectSeq(coll.embeddings, LAMBDA e : e.createdAt < cutoff)
               others == SelectSeq(coll.embeddings, LAMBDA e : ~(e.createdAt < cutoff))
           IN /\ task'[1].ret = [kind |-> "count", count |-> Len(older)]
              /\ task'[1].local.embeddings = others
              /\ (task'[1].pc = "mkdir") <=> (Len(older) > 0)
              /\ (task'[1].pc = "done") <=> (Len(older) = 0)
              /\ disk' = disk]_vars

\* C12: loadEmbeddings always returns a collection of the current version:
\* the stored records when the file is readable, parses and has the current
\* version, and no record at all for a missing, unreadable, corrupt or
\* other-version file.
C12_LoadNeverThrows ==
    LoadReturned(1) =>
        /\ task[1].ret.kind = "collection"
        /\ task[1].ret.collection.version = EMBEDDING_VERSION
        /\ task[1].ret.collection.embeddings =
               (IF disk.kind = "ok" /\ disk.version = EMBEDDING_VERSION
                THEN disk.embeddings ELSE <<>>)

\* a file of another version that holds records was loaded as empty
C12_Witness ==
    /\ LoadReturned(1)
    /\ disk.kind = "ok" /\ disk.version # EMBEDDING_VERSION
    /\ Len(disk.embeddings) > 0
    /\ task[1].ret.collection.embeddings = <<>>

----------------------------------------------------------------------------
(* DiffParser (src/src/utils/diff-parser.ts).  A text is a sequence of     *)
(* characters, one-character strings; a line is a text without "\n".       *)

Digits == <<"0", "1", "2", "3", "4", "5", "6", "7", "8", "9">>

IsDigit(c) == \E d \in 1..Len(Digits) : Digits[d] = c

\* the character at position i, "" past the end
At(line, i) == IF i \in 1..Len(line) THEN line[i] ELSE ""

\* line has the characters of s from position i on
HasAt(line, i, s) == \A k \in 1..Len(s) : At(line, i + k - 1) = s[k]

startsWith(line, prefix) == HasAt(line, 1, prefix)

\* String.prototype.split('\n'): the pieces between the newlines, one more
\* than there are newlines
split(diff) ==
    LET nl == {i \in 1..Len(diff) : diff[i] = "\n"}
        nth(k) == CHOOSE q \in nl : Cardinality({r \in nl : r < q}) = k - 1
        first(k) == IF k = 1 THEN 1 ELSE nth(k - 1) + 1
        last(k) == IF k = Cardinality(nl) + 1 THEN Len(diff) ELSE nth(k) - 1
    IN [k \in 1..(Cardinality(nl) + 1) |-> SubSeq(diff, first(k), last(k))]

\* Array.prototype.join('\n')
RECURSIVE join(_)
join(lines) ==
    IF lines = <<>> THEN <<>>
    ELSE IF Len(lines) = 1 THEN lines[1]
    ELSE lines[1] \o <<"\n">> \o join(Tail(lines))

\* String.prototype.trim
IsSpace(c) == c \in {" ", "\t", "\r", "\n"}

trim(line) ==
    LET ink == {i \in 1..Len(line) : ~IsSpace(line[i])}
    IN IF ink = {} THEN <<>>
       ELSE SubSeq(line, CHOOSE i \in ink : \A j \in ink : i <= j,
                         CHOOSE i \in ink : \A j \in ink : i >= j)

\* parseInt(digits, 10) of a run of digits
RECURSIVE parseInt(_)
parseInt(digits) ==
    IF digits = <<>> THEN 0
    ELSE 10 * parseInt(SubSeq(digits, 1, Len(digits) - 1))
         + ((CHOOSE d \in 1..Len(Digits) : Digits[d] = digits[Len(digits)]) - 1)

\* the length of the run of digits that starts at position i: what \d+
\* takes there
DigitRun(line, i) ==
    CHOOSE n \in 0..Len(line) :
        /\ \A k \in 0..(n - 1) : IsDigit(At(line, i + k))
        /\ ~IsDigit(At(line, i + n))

NoMatch == [matched |-> FALSE, g1 |-> <<>>, g2 |-> <<>>, g3 |-> <<>>, g4 |-> <<>>]

\* line.match(/^@@ -(\d+)(?:,(\d+))? \+(\d+)(?:,(\d+))? @@/); a group that
\* took no part in the match is <<>>
chunkMatch(line) ==
    LET p1 == 5
        n1 == DigitRun(line, p1)
        c2 == At(line, p1 + n1) = "," /\ DigitRun(line, p1 + n1 + 1) > 0
        p2 == p1 + n1 + 1
        n2 == IF c2 THEN DigitRun(line, p2) ELSE 0
        e2 == IF c2 THEN p2 + n2 ELSE p1 + n1
        p3 == e2 + 2
        n3 == DigitRun(line, p3)
        c4 == At(line, p3 + n3) = "," /\ DigitRun(line, p3 + n3 + 1) > 0
        p4 == p3 + n3 + 1
        n4 == IF c4 THEN DigitRun(line, p4) ELSE 0
        e4 == IF c4 THEN p4 + n4 ELSE p3 + n3
    IN IF /\ HasAt(line, 1, <<"@", "@", " ", "-">>)
          /\ n1 > 0
          /\ HasAt(line, e2, <<" ", "+">>)
          /\ n3 > 0
          /\ HasAt(line, e4, <<" ", "@", "@">>)
       THEN [matched |-> TRUE,
             g1 |-> SubSeq(line, p1, p1 + n1 - 1),
             g2 |-> IF c2 THEN SubSeq(line, p2, p2 + n2 - 1) ELSE <<>>,
             g3 |-> SubSeq(line, p3, p3 + n3 - 1),
             g4 |-> IF c4 THEN SubSeq(line, p4, p4 + n4 - 1) ELSE <<>>]
       ELSE NoMatch

\* the file headers and metadata both parseDiff and simplifyDiffForAnalysis skip
isMetadata(line) ==
    \/ startsWith(line, <<"d", "i", "f", "f", " ", "-", "-", "g", "i", "t">>)
    \/ startsWith(line, <<"i", "n", "d", "e", "x", " ">>)
    \/ startsWith(line, <<"-", "-", "-">>)
    \/ startsWith(line, <<"+", "+", "+">>)

NoChunk == [oldStart |-> 0, oldLines |-> 0, newStart |-> 0, newLines |-> 0, lines |-> <<>>]

\* parseDiff before its loop: no chunk, currentChunk = null
ParseStart == [chunks |-> <<>>, open |-> FALSE, currentChunk |-> NoChunk]

\* a header line: the chunk it opens
newChunk(m) ==
    [oldStart |-> parseInt(m.g1),
     oldLines |-> parseInt(IF m.g2 = <<>> THEN <<"1">> ELSE m.g2),
     newStart |-> parseInt(m.g3),
     newLines |-> parseInt(IF m.g4 = <<>> THEN <<"1">> ELSE m.g4),
     lines |-> <<>>]

\* a DiffLine numbered by the lines before it, whatever their type
diffLineCountingAll(chunk, line) ==
    LET type == IF startsWith(line, <<"+">>) THEN "added"
                ELSE IF startsWith(line, <<"-">>) THEN "removed" ELSE "context"
    IN [type |-> type,
        content |-> Tail(line),
        lineNumber |->
            IF type = "added"
            THEN chunk.newStart + Len(chunk.lines)
            ELSE chunk.oldStart + Len(chunk.lines)]

\* a '+', '-' or ' ' line: the DiffLine pushed onto the current chunk
diffLine(chunk, line) ==
    LET type == IF startsWith(line, <<"+">>) THEN "added"
                ELSE IF startsWith(line, <<"-">>) THEN "removed" ELSE "context"
    IN [type |-> type,
        content |-> Tail(line),
        lineNumber |->
            IF type = "added"
            THEN chunk.newStart + Len(SelectSeq(chunk.lines, LAMBDA l : l.type # "removed"))
            ELSE chunk.oldStart + Len(SelectSeq(chunk.lines, LAMBDA l : l.type # "added"))]

\* one round of the loop of parseDiff
parseLine(st, line) ==
    LET m == chunkMatch(line)
    IN IF m.matched
       THEN [chunks |-> IF st.open THEN Append(st.chunks, st.currentChunk) ELSE st.chunks,
             open |-> TRUE,
             currentChunk |-> newChunk(m)]
       ELSE IF isMetadata(line) THEN st
       ELSE IF st.open /\ (\/ startsWith(line, <<"+">>)
                           \/ startsWith(line, <<"-">>)
                           \/ startsWith(line, <<" ">>))
       THEN [st EXCEPT !.currentChunk.lines = Append(@, diffLine(st.currentChunk, line))]
       ELSE st

RECURSIVE parseLoop(_, _)
parseLoop(lines, n) ==
    IF n = 0 THEN ParseStart ELSE parseLine(parseLoop(lines, n - 1), lines[n])

\* the end of parseDiff without its last push
closeNothing(st) == st.chunks

\* "Don't forget the last chunk"
closeLast(st) == IF st.open THEN Append(st.chunks, st.currentChunk) ELSE st.chunks

parseDiff(diff) ==
    IF diff = <<>> THEN <<>>
    ELSE closeLast(parseLoop(split(diff), Len(split(diff))))

\* the lines of all the chunks, in chunk order
RECURSIVE chunkLines(_)
chunkLines(chunks) ==
    IF chunks = <<>> THEN <<>> ELSE chunks[1].lines \o chunkLines(Tail(chunks))

contents(lines) == [i \in 1..Len(lines) |-> lines[i].content]

extractChangedLines(diff) ==
    LET lines == chunkLines(parseDiff(diff))
    IN [added |-> contents(SelectSeq(lines, LAMBDA l : l.type = "added")),
        removed |-> contents(SelectSeq(lines, LAMBDA l : l.type = "removed"))]

getDiffStats(diff) ==
    LET lines == chunkLines(parseDiff(diff))
        additions == Len(SelectSeq(lines, LAMBDA l : l.type = "added"))
        deletions == Len(SelectSeq(lines, LAMBDA l : l.type = "removed"))
    IN [additions |-> additions, deletions |-> deletions,
        changes |-> additions + deletions]

\* a simplification that keeps every context line
isRelevantKeepingBlank(line) ==
    /\ ~isMetadata(line)
    /\ \/ startsWith(line, <<"@", "@">>)
       \/ startsWith(line, <<"+">>)
       \/ startsWith(line, <<"-">>)
       \/ startsWith(line, <<" ">>)

\* the lines simplifyDiffForAnalysis pushes onto relevantLines
isRelevant(line) ==
    /\ ~isMetadata(line)
    /\ \/ startsWith(line, <<"@", "@">>)
       \/ startsWith(line, <<"+">>)
       \/ startsWith(line, <<"-">>)
       \/ startsWith(line, <<" ">>) /\ trim(line) # <<>>

simplifyDiffForAnalysis(diff) == join(SelectSeq(split(diff), isRelevant))

----------------------------------------------------------------------------
(* The diffs a DiffParser is given *)

MaxLines == 3   \* lines of a diff put together from any lines (SpecDiff)
MaxBody == 3    \* '+', '-' and ' ' lines of a well-formed diff (SpecDiff)

HeaderFull == <<"@", "@", " ", "-", "1", ",", "2", " ", "+", "1", ",", "3", " ", "@", "@">>
HeaderShort == <<"@", "@", " ", "-", "5", " ", "+", "7", " ", "@", "@">>
HeaderZero == <<"@", "@", " ", "-", "0", ",", "0", " ", "+", "1", "2", " ", "@", "@", " ", "f">>
HeaderBroken == <<"@", "@", " ", "-", "1", ",", "2">>

\* the lines a text is put together from: hunk headers with both counts,
\* with none, with a zero count and trailing text, a header cut short,
\* changed, context, blank and empty lines, metadata, and other text
DiffLines ==
    {HeaderFull, HeaderShort, HeaderZero, HeaderBroken,
     <<"+", "a">>, <<"-", "b">>, <<" ", "c">>, <<" ">>, <<>>,
     <<"+", "+", "+", " ", "b">>, <<"-", "-", "-", " ", "a">>, <<"d", "i", "f", "f", " ", "-", "-", "g", "i", "t", " ", "f">>, <<"i", "n", "d", "e", "x", " ", "1">>, <<"\\", " ", "n", "o">>}

AnyTexts == {join(ls) : ls \in UNION {[1..n -> DiffLines] : n \in 0..MaxLines}}

\* the body lines of well-formed diffs: plain ones, a blank context line,
\* and changed lines whose content begins with "--" (a comment of SQL, Lua
\* or Haskell) or "++" (an increment)
BodyLine(type, content) == [type |-> type, content |-> content]

BodyLines ==
    {BodyLine("context", <<"a">>), BodyLine("context", <<>>),
     BodyLine("added", <<"b">>), BodyLine("removed", <<"c">>),
     BodyLine("removed", <<"-", "-", " ", "x">>), BodyLine("added", <<"+", "+", "i">>)}

\* a well-formed diff of one file: its body lines and the places where a
\* new hunk starts (after line c for c in cuts)
Sources ==
    UNION {{[body |-> b, cuts |-> c] : b \in [1..n -> BodyLines], c \in SUBSET (1..(n - 1))}
           : n \in 1..MaxBody}

NoSource == [body |-> <<>>, cuts |-> {}]

\* Number.prototype.toString of 0..99
toText(n) == IF n < 10 THEN <<Digits[n + 1]>> ELSE <<Digits[(n \div 10) + 1], Digits[(n % 10) + 1]>>

Prefix(type) == IF type = "added" THEN "+" ELSE IF type = "removed" THEN "-" ELSE " "

\* the hunks of a source: hunk k holds the body lines first(k)..last(k)
HunkCount(src) == Cardinality(src.cuts) + 1

HunkFirst(src, k) ==
    IF k = 1 THEN 1
    ELSE 1 + CHOOSE c \in src.cuts : Cardinality({d \in src.cuts : d < c}) = k - 2

HunkLast(src, k) ==
    IF k = HunkCount(src) THEN Len(src.body) ELSE HunkFirst(src, k + 1) - 1

HunkBody(src, k) == SubSeq(src.body, HunkFirst(src, k), HunkLast(src, k))

OldCount(body) == Len(SelectSeq(body, LAMBDA l : l.type # "added"))
NewCount(body) == Len(SelectSeq(body, LAMBDA l : l.type # "removed"))

\* "@@ -start[,count] +start[,count] @@"; a count of 1 is left out, as
\* git does
RenderRange(start, count) ==
    toText(start) \o (IF count = 1 THEN <<>> ELSE <<",">> \o toText(count))

RenderHeader(src, k) ==
    <<"@", "@", " ", "-">> \o RenderRange(10 * k - 9, OldCount(HunkBody(src, k)))
    \o <<" ", "+">> \o RenderRange(10 * k - 9, NewCount(HunkBody(src, k)))
    \o <<" ", "@", "@">>

RenderHunk(src, k) ==
    <<RenderHeader(src, k)>>
    \o [i \in 1..Len(HunkBody(src, k)) |->
           <<Prefix(HunkBody(src, k)[i].type)>> \o HunkBody(src, k)[i].content]

RECURSIVE RenderHunks(_, _)
RenderHunks(src, k) ==
    IF k = 0 THEN <<>> ELSE RenderHunks(src, k - 1) \o RenderHunk(src, k)

\* the unified diff of a source: the file header, then the hunks
Render(src) ==
    join(<<<<"d", "i", "f", "f", " ", "-", "-", "g", "i", "t", " ", "f">>, <<"i", "n", "d", "e", "x", " ", "1">>, <<"-", "-", "-", " ", "a">>, <<"+", "+", "+", " ", "b">>>> \o RenderHunks(src, HunkCount(src)))

ParserAt(diff, src) ==
    [pc |-> "parseDiff", diff |-> diff, wellFormed |-> src # NoSource, source |-> src,
     chunks |-> <<>>, changed |-> [added |-> <<>>, removed |-> <<>>],
     stats |-> [additions |-> 0, deletions |-> 0, changes |-> 0],
     simplified |-> <<>>, again |-> <<>>]

\* the DiffParser operations, applied one after the other to the diff
ParseDiff ==
    /\ parser.pc = "parseDiff"
    /\ parser' = [parser EXCEPT !.chunks = parseDiff(parser.diff),
                                !.pc = "extractChangedLines"]

ExtractChangedLines ==
    /\ parser.pc = "extractChangedLines"
    /\ parser' = [parser EXCEPT !.changed = extractChangedLines(parser.diff),
                                !.pc = "getDiffStats"]

GetDiffStats ==
    /\ parser.pc = "getDiffStats"
    /\ parser' = [parser EXCEPT !.stats = getDiffStats(parser.diff),
                                !.pc = "simplifyDiffForAnalysis"]

SimplifyDiffForAnalysis ==
    /\ parser.pc = "simplifyDiffForAnalysis"
    /\ parser' = [parser EXCEPT !.simplified = simplifyDiffForAnalysis(parser.diff),
                                !.pc = "simplifyAgain"]

\* the simplified text is simplified once more
SimplifyAgain ==
    /\ parser.pc = "simplifyAgain"
    /\ parser' = [parser EXCEPT !.again = simplifyDiffForAnalysis(parser.simplified),
                                !.pc = "done"]

InitDiff ==
    /\ disk = MissingFile
    /\ now = 0
    /\ task = [t \in Callers |-> IdleTask]
    /\ calls = 0
    /\ DedupIdle
    /\ text = TextIdle
    /\ UtilIdle
    /\ \/ \E src \in Sources : parser = ParserAt(Render(src), src)
       \/ \E d \in AnyTexts : parser = ParserAt(d, NoSource)

NextDiff ==
    \/ ParseDiff /\ UNCHANGED <<disk, now, task, calls, dedupVars, text, utilVars>>
    \/ ExtractChangedLines /\ UNCHANGED <<disk, now, task, calls, dedupVars, text, utilVars>>
    \/ GetDiffStats /\ UNCHANGED <<disk, now, task, calls, dedupVars, text, utilVars>>
    \/ SimplifyDiffForAnalysis /\ UNCHANGED <<disk, now, task, calls, dedupVars, text, utilVars>>
    \/ SimplifyAgain /\ UNCHANGED <<disk, now, task, calls, dedupVars, text, utilVars>>

SpecDiff == InitDiff /\ [][NextDiff]_vars

----------------------------------------------------------------------------
(* Claims about DiffParser *)

\* parseDiff has just returned parser.chunks
Parsed == parser.pc = "extractChangedLines"

\* the lines that are hunk headers, told without the parser: the three
\* headers of DiffLines, and in a rendered diff the lines that begin "@@"
\* (no body line does)
IsHeader(line) ==
    \/ line \in {HeaderFull, HeaderShort, HeaderZero}
    \/ parser.wellFormed /\ startsWith(line, <<"@", "@">>)

HeaderPlaces(lines) == {i \in 1..Len(lines) : IsHeader(lines[i])}

\* the place of the k-th header among the places, and the place where its
\* hunk ends
HeaderPlace(places, k) ==
    CHOOSE i \in places : Cardinality({j \in places : j < i}) = k - 1

HunkEnd(lines, places, k) ==
    IF k = Cardinality(places) THEN Len(lines) ELSE HeaderPlace(places, k + 1) - 1

\* what the k-th header says, read off by hand
HeaderSays(line, k) ==
    IF parser.wellFormed
    THEN <<10 * k - 9, OldCount(HunkBody(parser.source, k)),
           10 * k - 9, NewCount(HunkBody(parser.source, k))>>
    ELSE IF line = HeaderFull THEN <<1, 2, 1, 3>>
    ELSE IF line = HeaderShort THEN <<5, 1, 7, 1>>
    ELSE <<0, 0, 12, 1>>

LineText(l) == <<Prefix(l.type)>> \o l.content

\* C13: parseDiff returns one hunk per header line, in input order, with the
\* four numbers of that header (a count left out is 1, a count of 0 stays 0);
\* a hunk's lines are lines of the input between its header and the next
\* one; a text without a header, the empty text included, gives no hunk.
C13_OneHunkPerHeader ==
    Parsed =>
        LET lines == split(parser.diff)
            places == HeaderPlaces(lines)
        IN /\ Len(parser.chunks) = Cardinality(places)
           /\ \A k \in 1..Len(parser.chunks) :
                  LET c == parser.chunks[k]
                      from == HeaderPlace(places, k)
                      to == HunkEnd(lines, places, k)
                  IN /\ <<c.oldStart, c.oldLines, c.newStart, c.newLines>>
                            = HeaderSays(lines[from], k)
                     /\ Len(c.lines) <= to - from
                     /\ \A j \in 1..Len(c.lines) :
                            \E i \in (from + 1)..to : lines[i] = LineText(c.lines[j])

\* two hunks: one closed by the next header, one by the end of the input;
\* a count left out and a count of 0
C13_Witness ==
    /\ Parsed
    /\ Len(parser.chunks) = 2
    /\ parser.chunks[1].lines # <<>>
    /\ parser.chunks[1].oldLines = 1 /\ parser.chunks[1].oldStart = 5
    /\ parser.chunks[2].oldLines = 0

\* a line that begins with '+', '-' or a space
IsBodyLine(line) == line # <<>> /\ line[1] \in {"+", "-", " "}

TypeOf(line) ==
    IF line[1] = "+" THEN "added" ELSE IF line[1] = "-" THEN "removed" ELSE "context"

\* C14: while a hunk is open, every input line that begins with '+', '-' or
\* a space is appended to it, in input order, as Added, Removed or Context,
\* its content the line without its first character: none is dropped, none
\* is retyped.
C14_EveryBodyLineKept ==
    Parsed =>
        LET lines == split(parser.diff)
            places == HeaderPlaces(lines)
        IN \A k \in 1..Cardinality(places) :
               k <= Len(parser.chunks) =>
                   LET body == SelectSeq(SubSeq(lines, HeaderPlace(places, k) + 1,
                                                HunkEnd(lines, places, k)), IsBodyLine)
                       c == parser.chunks[k]
                   IN /\ Len(c.lines) = Len(body)
                      /\ \A j \in 1..Len(body) :
                             /\ c.lines[j].type = TypeOf(body[j])
                             /\ c.lines[j].content = Tail(body[j])

Finished == parser.pc = "done"

\* the contents of the lines of one type of a well-formed diff, in order
SourceContents(src, type) == contents(SelectSeq(src.body, LAMBDA l : l.type = type))

\* C15: for a diff whose hunks hold N added and M removed lines,
\* extractChangedLines returns them, N and M contents in hunk order and
\* in-hunk order, and getDiffStats counts N additions, M deletions and N + M
\* changes.
C15_ChangedLinesAndStats ==
    Finished =>
        /\ parser.stats.additions = Len(parser.changed.added)
        /\ parser.stats.deletions = Len(parser.changed.removed)
        /\ parser.stats.changes = parser.stats.additions + parser.stats.deletions
        /\ parser.wellFormed =>
               /\ parser.changed.added = SourceContents(parser.source, "added")
               /\ parser.changed.removed = SourceContents(parser.source, "removed")

\* C16: in a well-formed unified diff every hunk parseDiff returns has as
\* many Context and Removed lines as its header's old count, and as many
\* Context and Added lines as its new count.
C16_CountsMatchHeader ==
    (Parsed /\ parser.wellFormed) =>
        \A k \in 1..Len(parser.chunks) :
            LET c == parser.chunks[k]
            IN /\ Len(SelectSeq(c.lines, LAMBDA l : l.type # "added")) = c.oldLines
               /\ Len(SelectSeq(c.lines, LAMBDA l : l.type # "removed")) = c.newLines

\* the lines simplifyDiffForAnalysis is to keep, marked by hand: of
\* DiffLines the headers (the broken one too), "+a", "-b" and " c"; of a
\* rendered diff the headers and the body lines that are neither blank
\* context nor taken for "---" / "+++"
KeptLines == {HeaderFull, HeaderShort, HeaderZero, HeaderBroken, <<"+", "a">>, <<"-", "b">>, <<" ", "c">>}

Kept(line) ==
    IF parser.wellFormed
    THEN /\ Len(line) >= 2
         /\ line[1] \in {"@", "+", "-", " "}
         /\ ~(Len(line) >= 3 /\ line[1] \in {"+", "-"} /\ line[2] = line[1] /\ line[3] = line[1])
    ELSE line \in KeptLines

\* C17: simplifyDiffForAnalysis returns, joined by newlines and in input
\* order, the lines that are not metadata and are a "@@" line, a '+' or '-'
\* line, or a context line that is not blank; no output line is metadata,
\* every Added or Removed line of a hunk of parseDiff is in the output as it
\* was, and simplifying twice gives what simplifying once gives.
C17_SimplifyKeepsSignal ==
    Finished =>
        LET out == split(parser.simplified)
        IN /\ parser.simplified = join(SelectSeq(split(parser.diff), Kept))
           /\ \A i \in 1..Len(out) :
                  /\ ~HasAt(out[i], 1, <<"-", "-", "-">>)
                  /\ ~HasAt(out[i], 1, <<"+", "+", "+">>)
                  /\ ~HasAt(out[i], 1, <<"i", "n", "d", "e", "x", " ">>)
                  /\ ~HasAt(out[i], 1, <<"d", "i", "f", "f", " ", "-", "-", "g", "i", "t">>)
           /\ \A k \in 1..Len(parser.chunks) :
                  \A j \in 1..Len(parser.chunks[k].lines) :
                      parser.chunks[k].lines[j].type # "context" =>
                          \E i \in 1..Len(out) : out[i] = LineText(parser.chunks[k].lines[j])
           /\ parser.again = parser.simplified

\* a diff with its file header, a changed line and a blank context line:
\* the output is shorter than the input and holds the changed line
C17_Witness ==
    /\ Finished
    /\ parser.wellFormed
    /\ \E i \in 1..Len(parser.source.body) :
           parser.source.body[i] = BodyLine("context", <<>>)
    /\ parser.changed.added # <<>>
    /\ Len(parser.simplified) < Len(parser.diff)
    /\ parser.simplified # <<>>

----------------------------------------------------------------------------
(* Deduplicator.calculateTextSimilarity (dedup.ts:225-276).  Strings are   *)
(* sequences of characters.  The code computes in doubles; the model keeps *)
(* the Jaccard and the character similarity as fractions and the result    *)
(* 0.7 * J + 0.3 * C as the fraction (7 * J + 3 * C) / 10, which is exact. *)
(* For J = C = 1 the doubles give 0.7 + 0.3 = 1.0 as well.                 *)

MaxChars == 3   \* length of the strings compared (SpecText)

\* the characters of the strings: letters of both cases, punctuation, space
Chars == {"a", "b", "A", "!", " "}

Strings == UNION {[1..n -> Chars] : n \in 0..MaxChars}

\* the characters of t at the positions of keep, in order
Pick(t, keep) ==
    [k \in 1..Cardinality(keep) |->
        t[CHOOSE i \in keep : Cardinality({j \in keep : j < i}) = k - 1]]

lowerChar(c) == IF c = "A" THEN "a" ELSE IF c = "B" THEN "b" ELSE c

toLowerCase(t) == [i \in 1..Len(t) |-> lowerChar(t[i])]

\* \w: letters, digits and the underscore
IsWordChar(c) == c \in {"a", "b", "A", "B", "_"} \/ IsDigit(c)

\* replace(/[^\w\s]/g, ' ')
replacePunctuation(t) ==
    [i \in 1..Len(t) |-> IF IsWordChar(t[i]) \/ IsSpace(t[i]) THEN t[i] ELSE " "]

\* replace(/\s+/g, ' '): a run of white space becomes one space
collapseSpaces(t) ==
    LET u == Pick(t, {i \in 1..Len(t) : ~(IsSpace(t[i]) /\ i > 1 /\ IsSpace(t[i - 1]))})
    IN [i \in 1..Len(u) |-> IF IsSpace(u[i]) THEN " " ELSE u[i]]

\* a normalization that keeps the case of the letters
normalizeKeepingCase(t) == trim(collapseSpaces(replacePunctuation(t)))

normalize(t) == trim(collapseSpaces(replacePunctuation(toLowerCase(t))))

\* new Set(normalized.split(' '))
wordSet(t) ==
    LET sp == {i \in 1..Len(t) : t[i] = " "}
        nth(k) == CHOOSE q \in sp : Cardinality({r \in sp : r < q}) = k - 1
        first(k) == IF k = 1 THEN 1 ELSE nth(k - 1) + 1
        last(k) == IF k = Cardinality(sp) + 1 THEN Len(t) ELSE nth(k) - 1
    IN {SubSeq(t, first(k), last(k)) : k \in 1..(Cardinality(sp) + 1)}

Fraction(num, den) == [num |-> num, den |-> den]

\* intersection.size / union.size, 0 for an empty union
jaccardSimilarity(words1, words2) ==
    IF Cardinality(words1 \union words2) > 0
    THEN Fraction(Cardinality(words1 \intersect words2), Cardinality(words1 \union words2))
    ELSE Fraction(0, 1)

\* longer.indexOf(char, j) with positions counted from 1; 0 when absent
indexOf(longer, char, j) ==
    LET hits == {q \in j..Len(longer) : longer[q] = char}
    IN IF hits = {} THEN 0 ELSE CHOOSE q \in hits : \A r \in hits : q <= r

\* a scan that searches from the previous match, not past it
charStepFromMatch(st, shorter, longer, i) ==
    IF st.j > Len(longer) THEN st
    ELSE LET found == indexOf(longer, shorter[i], st.j)
         IN IF found # 0 THEN [matches |-> st.matches + 1, j |-> found] ELSE st

\* one round of the loop of calculateCharacterSimilarity
charStep(st, shorter, longer, i) ==
    IF st.j > Len(longer) THEN st
    ELSE LET found == indexOf(longer, shorter[i], st.j)
         IN IF found # 0 THEN [matches |-> st.matches + 1, j |-> found + 1] ELSE st

RECURSIVE charLoop(_, _, _)
charLoop(shorter, longer, n) ==
    IF n = 0 THEN [matches |-> 0, j |-> 1]
    ELSE charStep(charLoop(shorter, longer, n - 1), shorter, longer, n)

calculateCharacterSimilarity(text1, text2) ==
    LET shorter == IF Len(text1) < Len(text2) THEN text1 ELSE text2
        longer == IF Len(text1) >= Len(text2) THEN text1 ELSE text2
    IN IF Len(shorter) = 0 THEN Fraction(0, 1)
       ELSE Fraction(charLoop(shorter, longer, Len(shorter)).matches, Len(longer))

\* jaccardSimilarity * 0.7 + charSimilarity * 0.3
weighted(jaccard, char) ==
    Fraction(7 * jaccard.num * char.den + 3 * char.num * jaccard.den,
             10 * jaccard.den * char.den)

calculateTextSimilarity(normalized1, normalized2) ==
    IF normalized1 = <<>> \/ normalized2 = <<>> THEN Fraction(0, 1)
    ELSE weighted(jaccardSimilarity(wordSet(normalized1), wordSet(normalized2)),
                  calculateCharacterSimilarity(normalized1, normalized2))

TextAt(text1, text2) ==
    [pc |-> "normalize", text1 |-> text1, text2 |-> text2,
     normalized1 |-> <<>>, normalized2 |-> <<>>, ret |-> Fraction(0, 1)]

\* dedup.ts:227-235: both texts are normalized
Normalize ==
    /\ text.pc = "normalize"
    /\ text' = [text EXCEPT !.normalized1 = normalize(text.text1),
                            !.normalized2 = normalize(text.text2),
                            !.pc = "compare"]

\* dedup.ts:237-255: the empty check, the two similarities, their weighting
Compare ==
    /\ text.pc = "compare"
    /\ text' = [text EXCEPT !.ret = calculateTextSimilarity(text.normalized1, text.normalized2),
                            !.pc = "done"]

InitText ==
    /\ disk = MissingFile
    /\ now = 0
    /\ task = [t \in Callers |-> IdleTask]
    /\ calls = 0
    /\ DedupIdle
    /\ parser = ParserIdle
    /\ UtilIdle
    /\ \E text1 \in Strings, text2 \in Strings : text = TextAt(text1, text2)

NextText ==
    \/ Normalize /\ UNCHANGED <<disk, now, task, calls, dedupVars, parser, utilVars>>
    \/ Compare /\ UNCHANGED <<disk, now, task, calls, dedupVars, parser, utilVars>>

SpecText == InitText /\ [][NextText]_vars

----------------------------------------------------------------------------
(* Claims about calculateTextSimilarity *)

Compared == text.pc = "done"

IsOne(f) == f.den > 0 /\ f.num = f.den

\* the two strings differ at most in the case of their letters
SameUpToCase(t1, t2) ==
    Len(t1) = Len(t2) /\ \A i \in 1..Len(t1) : lowerChar(t1[i]) = lowerChar(t2[i])

\* the statement of C18 as it is written: any non-empty string compared
\* with itself scores 1, and so do any two strings with identical
\* normalized forms
C18_AsWritten ==
    Compared =>
        /\ (text.text1 # <<>> /\ text.text1 = text.text2) => IsOne(text.ret)
        /\ (text.normalized1 = text.normalized2) => IsOne(text.ret)

\* C18 (amended): a string whose normalized form is not empty scores 1
\* against itself, and two strings score 1 when their normalized forms are
\* identical and not empty; the case of the letters makes no difference.
C18_IdenticalScoreOne ==
    Compared =>
        /\ (text.normalized1 # <<>> /\ text.normalized1 = text.normalized2) => IsOne(text.ret)
        /\ (text.normalized1 # <<>> /\ SameUpToCase(text.text1, text.text2)) => IsOne(text.ret)

\* two different strings, one with a capital letter, the same normalized form
C18_Witness ==
    /\ Compared
    /\ text.text1 # text.text2
    /\ \E i \in 1..Len(text.text1) : text.text1[i] = "A"
    /\ text.normalized1 = text.normalized2
    /\ text.normalized1 # <<>>
    /\ IsOne(text.ret)

\* the words of a normalized string: its longest stretches without a space
WordsOf(t) ==
    {SubSeq(t, i, j) : <<i, j>> \in
        {w \in (1..Len(t)) \X (1..Len(t)) :
            /\ w[1] <= w[2]
            /\ \A k \in w[1]..w[2] : t[k] # " "
            /\ (w[1] = 1 \/ t[w[1] - 1] = " ")
            /\ (w[2] = Len(t) \/ t[w[2] + 1] = " ")}}

\* the greedy scan: the characters of a from the i-th on that are found in
\* b at or after position j, each search starting just past the last match
RECURSIVE Scan(_, _, _, _)
Scan(a, b, i, j) ==
    IF i > Len(a) THEN 0
    ELSE LET hits == {q \in j..Len(b) : b[q] = a[i]}
         IN IF hits = {} THEN Scan(a, b, i + 1, j)
            ELSE 1 + Scan(a, b, i + 1, 1 + CHOOSE q \in hits : \A r \in hits : q <= r)

\* C19: the result is 0 when a normalized string is empty; otherwise it is
\* 0.7 * J + 0.3 * C, J the Jaccard similarity of the word sets and C the
\* number of characters of the shorter string the greedy scan finds in the
\* longer one, over the length of the longer; it lies within [0, 1].
C19_WeightedFormula ==
    Compared =>
        LET n1 == text.normalized1
            n2 == text.normalized2
            both == Cardinality(WordsOf(n1) \intersect WordsOf(n2))
            either == Cardinality(WordsOf(n1)) + Cardinality(WordsOf(n2)) - both
            longest == IF Len(n1) >= Len(n2) THEN Len(n1) ELSE Len(n2)
            scans == (IF Len(n2) <= Len(n1) THEN {Scan(n2, n1, 1, 1)} ELSE {})
                     \union (IF Len(n1) <= Len(n2) THEN {Scan(n1, n2, 1, 1)} ELSE {})
        IN /\ text.ret.den > 0
           /\ 0 <= text.ret.num /\ text.ret.num <= text.ret.den
           /\ IF n1 = <<>> \/ n2 = <<>>
              THEN text.ret.num = 0
              ELSE \E matches \in scans :
                       text.ret.num * (10 * either * longest)
                           = (7 * both * longest + 3 * matches * either) * text.ret.den

\* two strings of different lengths that share a word and not all: the
\* result is strictly between 0 and 1
C19_Witness ==
    /\ Compared
    /\ text.normalized1 # <<>> /\ text.normalized2 # <<>>
    /\ WordsOf(text.normalized1) \intersect WordsOf(text.normalized2) # {}
    /\ WordsOf(text.normalized1) # WordsOf(text.normalized2)
    /\ 0 < text.ret.num /\ text.ret.num < text.ret.den
    /\ Len(text.normalized1) < Len(text.normalized2)

----------------------------------------------------------------------------
(* The order of the store calls of findDuplicates *)

CallsOf(tr, call) == {i \in 1..Len(tr) : tr[i].call = call}

EmbeddingObtained(tr) == Len(tr) >= 1 /\ tr[1].ok

\* what the calls findDuplicates has made so far must look like
StoreCallsInOrder(tr, number, threshold, position) ==
    LET adds == CallsOf(tr, "addEmbedding")
        finds == CallsOf(tr, "findSimilarEmbeddings")
    IN /\ Cardinality(adds) <= 1 /\ Cardinality(finds) <= 1
       /\ adds # {} => EmbeddingObtained(tr)
       /\ (EmbeddingObtained(tr) /\ position # "add") => adds # {}
       /\ \A a \in adds :
              /\ tr[a].arg.id = <<"pr", number>>
              /\ tr[a].arg.type = "pr" /\ tr[a].arg.number = number
              /\ tr[a].arg.embedding = tr[1].arg.embedding
       /\ \A f \in finds :
              /\ \E a \in adds : a < f
              /\ \A a \in adds : a < f
              /\ 10 * tr[f].arg.threshold = 7 * threshold
              /\ tr[f].arg.limit = 20
              /\ tr[f].arg.queryEmbedding = tr[1].arg.embedding
       /\ ~EmbeddingObtained(tr) => (adds = {} /\ finds = {})

\* C20: in every run of findDuplicates addEmbedding is called if and only if
\* an embedding was obtained, at most once, with the record pr:<number> that
\* holds that embedding, and before findSimilarEmbeddings, which is given
\* 0.7 times the configured threshold and the limit 20; when the embedding
\* call failed neither is called and the store stays as it was.
C20_UpsertThenQuery ==
    [][/\ StoreCallsInOrder(trace', context'.number, similarityThreshold', pc')
       /\ (Len(trace') >= 1 /\ ~trace'[1].ok) => disk' = disk]_vars

\* a run that upserted the record of its PR and then queried the store
C20_Witness ==
    /\ pc = "done"
    /\ Len(trace) = 4
    /\ trace[2].call = "addEmbedding" /\ trace[2].ok
    /\ trace[2].arg \in Range(disk.embeddings)
    /\ trace[3].call = "findSimilarEmbeddings"
    /\ trace[3].arg.threshold = 560

----------------------------------------------------------------------------
(* DiffParser.extractFunctionChanges and detectFunctionDefinition.  Each   *)
(* pattern is an operator that gives the name the pattern captures when it *)
(* matches at one position of the line, and <<>> when it does not match    *)
(* there; a captured name is never empty.                                  *)

FUNCTION_CHANGES_LIMIT == 10

\* \w: letters, digits and the underscore
WordChars ==
    {"a", "b", "c", "d", "e", "f", "g", "h", "i", "j", "k", "l", "m",
     "n", "o", "p", "q", "r", "s", "t", "u", "v", "w", "x", "y", "z",
     "A", "B", "C", "D", "E", "F", "G", "H", "I", "J", "K", "L", "M",
     "N", "O", "P", "Q", "R", "S", "T", "U", "V", "W", "X", "Y", "Z", "_"}

IsWord(c) == c \in WordChars \/ IsDigit(c)

\* \s* at position i: the position after the white space it takes
SkipSpace(line, i) ==
    i + CHOOSE n \in 0..Len(line) :
            /\ \A k \in 0..(n - 1) : IsSpace(At(line, i + k))
            /\ ~IsSpace(At(line, i + n))

\* \w+ at position i: the number of characters it takes, 0 when none
WordRun(line, i) ==
    CHOOSE n \in 0..Len(line) :
        /\ \A k \in 0..(n - 1) : IsWord(At(line, i + k))
        /\ ~IsWord(At(line, i + n))

\* the first position from i on that holds c, 0 when there is none
FirstOf(line, i, c) ==
    LET at == {p \in 1..Len(line) : p >= i /\ line[p] = c}
    IN IF at = {} THEN 0 ELSE CHOOSE p \in at : \A q \in at : p <= q

\* \([^)]*\) at position i: the position after it, 0 when it does not match
Parens(line, i) ==
    IF At(line, i) = "(" /\ FirstOf(line, i + 1, ")") # 0
    THEN FirstOf(line, i + 1, ")") + 1 ELSE 0

\* word\s+ at position i: the position after it, 0 when it does not match
Keyword(line, i, word) ==
    IF HasAt(line, i, word) /\ IsSpace(At(line, i + Len(word)))
    THEN SkipSpace(line, i + Len(word)) ELSE 0

\* (?:function\s+|const\s+|let\s+|var\s+)(\w+)\s*[=:]?\s*
\* (?:\([^)]*\)|async\s+\([^)]*\))\s*(?:=>|{)
jsFunctionAt(line, s) ==
    LET ks == {k \in {<<"f", "u", "n", "c", "t", "i", "o", "n">>, <<"c", "o", "n", "s", "t">>, <<"l", "e", "t">>, <<"v", "a", "r">>} : Keyword(line, s, k) # 0}
        p == IF ks = {} THEN 0 ELSE Keyword(line, s, CHOOSE k \in ks : TRUE)
        n == WordRun(line, p)
        q == SkipSpace(line, p + n)
        u == SkipSpace(line, IF At(line, q) \in {"=", ":"} THEN q + 1 ELSE q)
        a == Keyword(line, u, <<"a", "s", "y", "n", "c">>)
        r == IF Parens(line, u) # 0 THEN Parens(line, u)
             ELSE IF a # 0 THEN Parens(line, a) ELSE 0
        v == SkipSpace(line, r)
    IN IF /\ p # 0
          /\ n > 0
          /\ r # 0
          /\ HasAt(line, v, <<"=", ">">>) \/ At(line, v) = "{"
       THEN SubSeq(line, p, p + n - 1) ELSE <<>>

\* (\w+)\s*\([^)]*\)\s*(?::\s*[^{]+)?\s*{ at position p
methodCore(line, p) ==
    LET n == WordRun(line, p)
        r == Parens(line, SkipSpace(line, p + n))
        t == SkipSpace(line, r)
    IN IF /\ n > 0
          /\ r # 0
          /\ \/ At(line, t) = "{"
             \/ At(line, t) = ":" /\ FirstOf(line, t, "{") >= t + 2
       THEN SubSeq(line, p, p + n - 1) ELSE <<>>

\* (?:async\s+)?(\w+)\s*\([^)]*\)\s*(?::\s*[^{]+)?\s*{
methodAt(line, s) ==
    LET a == Keyword(line, s, <<"a", "s", "y", "n", "c">>)
    IN IF a # 0 /\ methodCore(line, a) # <<>>
       THEN methodCore(line, a) ELSE methodCore(line, s)

\* def\s+(\w+)\s*\([^)]*\)\s*(?:->\s*[^:]+)?\s*:
pythonDefAt(line, s) ==
    LET p == Keyword(line, s, <<"d", "e", "f">>)
        n == WordRun(line, p)
        r == Parens(line, SkipSpace(line, p + n))
        t == SkipSpace(line, r)
    IN IF /\ p # 0
          /\ n > 0
          /\ r # 0
          /\ \/ At(line, t) = ":"
             \/ HasAt(line, t, <<"-", ">">>) /\ FirstOf(line, t + 2, ":") >= t + 3
       THEN SubSeq(line, p, p + n - 1) ELSE <<>>

\* public|private|protected|static|\s at position p: the position after
\* it, 0 when none of them is there
modifier(line, p) ==
    IF HasAt(line, p, <<"p", "u", "b", "l", "i", "c">>) THEN p + 6
    ELSE IF HasAt(line, p, <<"p", "r", "i", "v", "a", "t", "e">>) THEN p + 7
    ELSE IF HasAt(line, p, <<"p", "r", "o", "t", "e", "c", "t", "e", "d">>) THEN p + 9
    ELSE IF HasAt(line, p, <<"s", "t", "a", "t", "i", "c">>) THEN p + 6
    ELSE IF IsSpace(At(line, p)) THEN p + 1
    ELSE 0

\* (?:public|private|protected|static|\s)* from position p: the positions
\* where it can stop, the one it tries first (the farthest) first
RECURSIVE modifierStops(_, _)
modifierStops(line, p) ==
    IF modifier(line, p) = 0 THEN <<p>>
    ELSE Append(modifierStops(line, modifier(line, p)), p)

\* \s*(?:throws\s+\w+\s*)?{ at position r
javaTail(line, r) ==
    LET t == SkipSpace(line, r)
        th == Keyword(line, t, <<"t", "h", "r", "o", "w", "s">>)
        n == WordRun(line, th)
    IN \/ th # 0 /\ n > 0 /\ At(line, SkipSpace(line, th + n)) = "{"
       \/ At(line, t) = "{"

\* (?:\w+\s+)*(\w+)\s*\([^)]*\)\s*(?:throws\s+\w+\s*)?{ at position a: the
\* words are walked until one is followed by "("
RECURSIVE javaWords(_, _)
javaWords(line, a) ==
    LET n == WordRun(line, a)
        f == SkipSpace(line, a + n)
    IN IF n = 0 THEN <<>>
       ELSE IF At(line, f) = "("
       THEN IF Parens(line, f) # 0 /\ javaTail(line, Parens(line, f))
            THEN SubSeq(line, a, a + n - 1) ELSE <<>>
       ELSE IF f > a + n THEN javaWords(line, f)
       ELSE <<>>

\* (?:public|private|protected|static|\s)*\s*(?:\w+\s+)*(\w+)\s*\([^)]*\)
\* \s*(?:throws\s+\w+\s*)?{
javaMethodAt(line, s) ==
    LET stops == modifierStops(line, s)
        names == [i \in 1..Len(stops) |-> javaWords(line, SkipSpace(line, stops[i]))]
        hits == {i \in 1..Len(stops) : names[i] # <<>>}
    IN IF hits = {} THEN <<>> ELSE names[CHOOSE i \in hits : \A j \in hits : i <= j]

\* func\s+(?:\([^)]*\)\s+)?(\w+)\s*\([^)]*\)(?:\s*[^{]+)?\s*{
goFuncAt(line, s) ==
    LET k == Keyword(line, s, <<"f", "u", "n", "c">>)
        rc == Parens(line, k)
        p == IF k # 0 /\ rc # 0 /\ IsSpace(At(line, rc)) THEN SkipSpace(line, rc) ELSE k
        n == WordRun(line, p)
        r == Parens(line, SkipSpace(line, p + n))
    IN IF /\ k # 0
          /\ n > 0
          /\ r # 0
          /\ FirstOf(line, r, "{") # 0
       THEN SubSeq(line, p, p + n - 1) ELSE <<>>

\* (?:pub\s+)?fn\s+(\w+)\s*(?:<[^>]*>)?\s*\([^)]*\)(?:\s*->\s*[^{]+)?\s*{
rustFnAt(line, s) ==
    LET pub == Keyword(line, s, <<"p", "u", "b">>)
        p == IF pub # 0 /\ Keyword(line, pub, <<"f", "n">>) # 0
             THEN Keyword(line, pub, <<"f", "n">>) ELSE Keyword(line, s, <<"f", "n">>)
        n == WordRun(line, p)
        q == SkipSpace(line, p + n)
        g == IF At(line, q) = "<" /\ FirstOf(line, q + 1, ">") # 0
             THEN FirstOf(line, q + 1, ">") + 1 ELSE q
        r == Parens(line, SkipSpace(line, g))
        t == SkipSpace(line, r)
    IN IF /\ p # 0
          /\ n > 0
          /\ r # 0
          /\ \/ At(line, t) = "{"
             \/ HasAt(line, t, <<"-", ">">>) /\ FirstOf(line, t + 2, "{") >= t + 3
       THEN SubSeq(line, p, p + n - 1) ELSE <<>>

\* String.prototype.match of a pattern without the g flag: the match that
\* starts leftmost; its first group, <<>> when the pattern matches nowhere
firstGroup(patternAt(_, _), line) ==
    LET starts == {s \in 1..Len(line) : patternAt(line, s) # <<>>}
    IN IF starts = {} THEN <<>>
       ELSE patternAt(line, CHOOSE s \in starts : \A z \in starts : s <= z)

\* the first of the six patterns that matches names the function; <<>> is
\* null.  The language argument is not used by the code.
detectFunctionDefinition(line) ==
    LET trimmedLine == trim(line)
        js == firstGroup(jsFunctionAt, trimmedLine)
        method == firstGroup(methodAt, trimmedLine)
        python == firstGroup(pythonDefAt, trimmedLine)
        java == firstGroup(javaMethodAt, trimmedLine)
        go == firstGroup(goFuncAt, trimmedLine)
    IN IF js # <<>> THEN js
       ELSE IF method # <<>> THEN method
       ELSE IF python # <<>> THEN python
       ELSE IF java # <<>> THEN java
       ELSE IF go # <<>> THEN go
       ELSE firstGroup(rustFnAt, trimmedLine)

\* the scan of extractFunctionChanges before the first chunk
ScanStart == [changes |-> <<>>, currentFunction |-> <<>>]

\* one line of a chunk: what it adds to changes, and the current function
\* after it
functionLine(st, line) ==
    LET functionMatch == detectFunctionDefinition(line.content)
    IN IF line.type = "context" THEN st
       ELSE IF functionMatch # <<>>
       THEN [currentFunction |-> functionMatch,
             changes |-> Append(st.changes,
                 (IF line.type = "added" THEN <<"A", "d", "d", "e", "d">> ELSE <<"M", "o", "d", "i", "f", "i", "e", "d">>)
                 \o <<" ", "f", "u", "n", "c", "t", "i", "o", "n", ":", " ">> \o functionMatch)]
       ELSE IF st.currentFunction # <<>> /\ trim(line.content) # <<>>
       THEN [st EXCEPT !.changes = Append(@,
                 (IF line.type = "added" THEN <<"A", "d", "d", "e", "d", " ", "t", "o", " ">> ELSE <<"R", "e", "m", "o", "v", "e", "d", " ", "f", "r", "o", "m", " ">>)
                 \o st.currentFunction \o <<":", " ">> \o trim(line.content))]
       ELSE st

RECURSIVE functionLines(_, _, _)
functionLines(st, lines, n) ==
    IF n = 0 THEN st ELSE functionLine(functionLines(st, lines, n - 1), lines[n])

\* a chunk scanned with the current function of the chunk before it
functionChunkCarrying(st, chunk) == functionLines(st, chunk.lines, Len(chunk.lines))

\* one chunk: currentFunction = '' first, then its lines
functionChunk(st, chunk) ==
    functionLines([st EXCEPT !.currentFunction = <<>>], chunk.lines, Len(chunk.lines))

RECURSIVE functionChunks(_, _)
functionChunks(chunks, n) ==
    IF n = 0 THEN ScanStart ELSE functionChunk(functionChunks(chunks, n - 1), chunks[n])

extractFunctionChanges(diff) ==
    LET chunks == parseDiff(diff)
    IN Slice(functionChunks(chunks, Len(chunks)).changes, FUNCTION_CHANGES_LIMIT)

----------------------------------------------------------------------------
(* The diffs extractFunctionChanges is given: a few lines of code, changed *)
(* once, or over and over until the diff has more lines than               *)
(* FUNCTION_CHANGES_LIMIT                                                  *)

MaxFuncBody == 2   \* body lines of the piece that is repeated (SpecFunc)

\* a method ("f(){") added and as context, a Python def removed, a
\* JavaScript arrow function added, a Java method that throws removed, a Go
\* func added, a Rust fn removed, and lines that are no signature: an
\* indented one added, a plain one removed, a blank one added
FunctionLines ==
    {BodyLine("added", <<"f", "(", ")", "{">>), BodyLine("context", <<"f", "(", ")", "{">>),
     BodyLine("removed", <<"d", "e", "f", " ", "g", "(", ")", ":">>), BodyLine("added", <<"l", "e", "t", " ", "k", "=", "(", ")", "=", ">">>),
     BodyLine("removed", <<"m", "(", ")", "t", "h", "r", "o", "w", "s", " ", "E", "{">>), BodyLine("added", <<"f", "u", "n", "c", " ", "n", "(", ")", "i", "n", "t", "{">>),
     BodyLine("removed", <<"f", "n", " ", "h", "(", ")", "-", ">", "u", "{">>),
     BodyLine("added", <<" ", "y">>), BodyLine("removed", <<"x">>), BodyLine("added", <<" ">>)}

Repeat(b, r) == [i \in 1..(Len(b) * r) |-> b[((i - 1) % Len(b)) + 1]]

\* once, and as often as makes more lines than the limit
Repeats(n) == {1, (FUNCTION_CHANGES_LIMIT \div n) + 1}

\* one hunk, or two: the second starts after a line of the first copy
Cuts(n, r) == {{}} \cup {{c} : c \in 1..Min(n, n * r - 1)}

\* the piece repeated, as one hunk or two
FunctionSources ==
    UNION {UNION {{[body |-> Repeat(b, r), cuts |-> c] :
                      b \in [1..n -> FunctionLines], c \in Cuts(n, r)}
                  : r \in Repeats(n)}
           : n \in 1..MaxFuncBody}

FunctionsAt(diff, src) ==
    [pc |-> "extractFunctionChanges", diff |-> diff, source |-> src, changes |-> <<>>]

ExtractFunctionChanges ==
    /\ parser.pc = "extractFunctionChanges"
    /\ parser' = [parser EXCEPT !.changes = extractFunctionChanges(parser.diff),
                                !.pc = "functionsDone"]

InitFunc ==
    /\ disk = MissingFile
    /\ now = 0
    /\ task = [t \in Callers |-> IdleTask]
    /\ calls = 0
    /\ DedupIdle
    /\ text = TextIdle
    /\ UtilIdle
    /\ \E src \in FunctionSources : parser = FunctionsAt(Render(src), src)

NextFunc ==
    ExtractFunctionChanges /\ UNCHANGED <<disk, now, task, calls, dedupVars, text, utilVars>>

SpecFunc == InitFunc /\ [][NextFunc]_vars

----------------------------------------------------------------------------
(* Claims about the line numbers of parseDiff *)

\* the lines of a hunk before its i-th line that are not of the type
PriorNot(c, i, type) ==
    Cardinality({j \in 1..(i - 1) : c.lines[j].type # type})

\* C21: in every hunk parseDiff returns, an Added line is numbered newStart
\* plus the number of earlier lines of that hunk that are not Removed, and
\* a Removed line oldStart plus the number of earlier lines of that hunk
\* that are not Added; the lines of other hunks do not count.
C21_ChangedLineNumbers ==
    Parsed =>
        \A k \in 1..Len(parser.chunks) :
            LET c == parser.chunks[k]
            IN \A i \in 1..Len(c.lines) :
                   /\ c.lines[i].type = "added" =>
                          c.lines[i].lineNumber = c.newStart + PriorNot(c, i, "removed")
                   /\ c.lines[i].type = "removed" =>
                          c.lines[i].lineNumber = c.oldStart + PriorNot(c, i, "added")

\* a hunk whose Added line follows a Removed one (which does not count),
\* then a second hunk whose first line is numbered by its own start
C21_Witness ==
    /\ Parsed
    /\ Len(parser.chunks) = 2
    /\ Len(parser.chunks[1].lines) = 2
    /\ parser.chunks[1].lines[1].type = "removed"
    /\ parser.chunks[1].lines[2].type = "added"
    /\ parser.chunks[1].lines[2].lineNumber = parser.chunks[1].newStart
    /\ Len(parser.chunks[2].lines) = 1
    /\ parser.chunks[2].lines[1].type = "added"
    /\ parser.chunks[2].lines[1].lineNumber = parser.chunks[2].newStart
    /\ parser.chunks[2].newStart # parser.chunks[1].newStart

\* C22: every Context line parseDiff returns is numbered in the new file:
\* newStart plus the number of earlier lines of its hunk that are not
\* Removed.
C22_ContextInNewFile ==
    Parsed =>
        \A k \in 1..Len(parser.chunks) :
            LET c == parser.chunks[k]
            IN \A i \in 1..Len(c.lines) :
                   c.lines[i].type = "context" =>
                       c.lines[i].lineNumber = c.newStart + PriorNot(c, i, "removed")

----------------------------------------------------------------------------
(* Claims about extractFunctionChanges *)

FunctionsDone == parser.pc = "functionsDone"

\* the function a line of FunctionLines declares, read off by hand; <<>>
\* for the three lines that are no signature
SignatureName(content) ==
    IF content = <<"f", "(", ")", "{">> THEN <<"f">>
    ELSE IF content = <<"d", "e", "f", " ", "g", "(", ")", ":">> THEN <<"g">>
    ELSE IF content = <<"l", "e", "t", " ", "k", "=", "(", ")", "=", ">">> THEN <<"k">>
    ELSE IF content = <<"m", "(", ")", "t", "h", "r", "o", "w", "s", " ", "E", "{">> THEN <<"m">>
    ELSE IF content = <<"f", "u", "n", "c", " ", "n", "(", ")", "i", "n", "t", "{">> THEN <<"n">>
    ELSE IF content = <<"f", "n", " ", "h", "(", ")", "-", ">", "u", "{">> THEN <<"h">>
    ELSE <<>>

\* what an entry shows of a line that is no signature; <<>> for the blank
\* line
Shown(content) ==
    IF content = <<" ", "y">> THEN <<"y">> ELSE IF content = <<"x">> THEN <<"x">> ELSE <<>>

\* the lines before line i, in the hunk of line i, that set the current
\* function
SettersBefore(src, i) ==
    {j \in 1..(i - 1) :
        /\ \A c \in src.cuts : ~(j <= c /\ c < i)
        /\ src.body[j].type # "context"
        /\ SignatureName(src.body[j].content) # <<>>}

\* the entry line i of the source gives rise to, <<>> when it gives none
EntryOf(src, i) ==
    LET l == src.body[i]
        setters == SettersBefore(src, i)
        last == CHOOSE j \in setters : \A k \in setters : k <= j
    IN IF l.type = "context" THEN <<>>
       ELSE IF SignatureName(l.content) # <<>>
       THEN (IF l.type = "added" THEN <<"A", "d", "d", "e", "d", " ", "f", "u", "n", "c", "t", "i", "o", "n", ":", " ">> ELSE <<"M", "o", "d", "i", "f", "i", "e", "d", " ", "f", "u", "n", "c", "t", "i", "o", "n", ":", " ">>)
            \o SignatureName(l.content)
       ELSE IF Shown(l.content) = <<>> \/ setters = {} THEN <<>>
       ELSE (IF l.type = "added" THEN <<"A", "d", "d", "e", "d", " ", "t", "o", " ">> ELSE <<"R", "e", "m", "o", "v", "e", "d", " ", "f", "r", "o", "m", " ">>)
            \o SignatureName(src.body[last].content) \o <<":", " ">> \o Shown(l.content)

\* the entries of all the lines of the source, in order
EntriesOf(src) ==
    Pick([i \in 1..Len(src.body) |-> EntryOf(src, i)],
         {i \in 1..Len(src.body) : EntryOf(src, i) # <<>>})

\* C23: extractFunctionChanges returns the first 10 entries, never more, of
\* the scan of the non-context lines of each hunk: a signature line sets
\* the current function of its hunk and gives "Added function: <name>"
\* (Added) or "Modified function: <name>" (Removed); another line that is
\* not blank gives "Added to <name>: <content>" or "Removed from <name>:
\* <content>", the content trimmed, only when a signature line came before
\* it in the same hunk; context lines set nothing and give nothing.
C23_FirstTenChanges ==
    FunctionsDone =>
        LET all == EntriesOf(parser.source)
        IN /\ Len(parser.changes) <= 10
           /\ parser.changes = SubSeq(all, 1, Min(10, Len(all)))

\* more than 10 entries, cut to 10; among them one of a line inside a
\* function; a second hunk that begins with a line that is no signature,
\* which gives no entry although the first hunk set a function
C23_Witness ==
    /\ FunctionsDone
    /\ Len(EntriesOf(parser.source)) > 10
    /\ Len(parser.changes) = 10
    /\ \E i \in 1..10 : startsWith(parser.changes[i], <<"A", "d", "d", "e", "d", " ", "t", "o", " ", "f", ":", " ", "y">>)
    /\ \E c \in parser.source.cuts :
           /\ parser.source.body[c].content = <<"f", "(", ")", "{">>
           /\ parser.source.body[c].type = "added"
           /\ parser.source.body[c + 1].content = <<" ", "y">>

----------------------------------------------------------------------------
(* calculateCosineSimilarity on its own *)

MaxScale == 2   \* the vectors are the base vectors times 0..MaxScale (SpecCosine)

\* vectors of one and of two dimensions whose magnitudes are whole numbers
BaseVectors == {<<1>>, <<-1>>, <<1, 0>>, <<0, -1>>, <<3, 4>>, <<-4, 3>>, <<4, -3>>}

\* the empty vector, the zero vectors and the multiples of the base vectors
CosineVectors ==
    {<<>>} \cup {[i \in 1..Len(v) |-> k * v[i]] : v \in BaseVectors, k \in 0..MaxScale}

CosineAt(a, b) ==
    [pc |-> "calculateCosineSimilarity", a |-> a, b |-> b,
     ab |-> [threw |-> FALSE, value |-> 0], ba |-> [threw |-> FALSE, value |-> 0]]

\* the two vectors are compared in both orders
CalculateCosineSimilarity ==
    /\ cosine.pc = "calculateCosineSimilarity"
    /\ cosine' = [cosine EXCEPT !.ab = calculateCosineSimilarity(cosine.a, cosine.b),
                                !.ba = calculateCosineSimilarity(cosine.b, cosine.a),
                                !.pc = "done"]

InitCosine ==
    /\ disk = MissingFile
    /\ now = 0
    /\ task = [t \in Callers |-> IdleTask]
    /\ calls = 0
    /\ DedupIdle
    /\ parser = ParserIdle
    /\ text = TextIdle
    /\ tokenizer = TokenizerIdle
    /\ limiter = LimiterIdle
    /\ \E a \in CosineVectors, b \in CosineVectors : cosine = CosineAt(a, b)

NextCosine ==
    CalculateCosineSimilarity
    /\ UNCHANGED <<disk, now, task, calls, dedupVars, parser, text, tokenizer, limiter>>

SpecCosine == InitCosine /\ [][NextCosine]_vars

\* every component of the vector is 0 (the empty vector has none)
AllZero(v) == \A i \in 1..Len(v) : v[i] = 0

\* C24: for vectors of equal length the cosine is the same in both orders,
\* nothing is thrown, and the cosine is 0 when one of the vectors is all
\* zero.
C24_CosineSymmetric ==
    (cosine.pc = "done" /\ Len(cosine.a) = Len(cosine.b)) =>
        /\ ~cosine.ab.threw
        /\ cosine.ab = cosine.ba
        /\ (AllZero(cosine.a) \/ AllZero(cosine.b)) => cosine.ab.value = 0

\* a zero vector against a vector that is not zero, in both orders
C24_Witness ==
    /\ cosine.pc = "done"
    /\ cosine.a = <<0, 0>>
    /\ cosine.b = <<3, 4>>
    /\ cosine.ab = [threw |-> FALSE, value |-> 0]
    /\ cosine.ba = [threw |-> FALSE, value |-> 0]

----------------------------------------------------------------------------
(* StorageAdapter with vectors of more than one length *)

MaxDimCalls == 3   \* StorageAdapter calls per behaviour (SpecDim)

\* vectors of one and of two dimensions
DimVectors == {<<1>>, <<1, 0>>, <<4, 3>>}
DimRecords == {EmbeddingData("pr", n, "t", v, 0) : n \in {1, 2}, v \in DimVectors}

StartAddDim(t) == \E e \in DimRecords : StartCall(t, "addEmbedding", e)

StartFindDim(t) ==
    \E q \in DimVectors :
        StartCall(t, "findSimilarEmbeddings",
                  [queryEmbedding |-> q, threshold |-> 800, limit |-> VECTOR_LIMIT])

InitDim ==
    /\ disk \in {MissingFile, SmallFile}
    /\ now = 0
    /\ task = [t \in Callers |-> IdleTask]
    /\ calls = MaxDimCalls
    /\ DedupIdle
    /\ PureIdle

NextDim ==
    \/ StartAddDim(1) /\ UNCHANGED <<dedupVars, pureVars>>
    \/ StartFindDim(1) /\ UNCHANGED <<dedupVars, pureVars>>
    \/ AddLoad(1) /\ UNCHANGED <<dedupVars, pureVars>>
    \/ FindLoad(1) /\ UNCHANGED <<dedupVars, pureVars>>
    \/ SaveMkdir(1) /\ UNCHANGED <<dedupVars, pureVars>>
    \/ SaveWrite(1) /\ UNCHANGED <<dedupVars, pureVars>>
    \/ SaveFail(1) /\ UNCHANGED <<dedupVars, pureVars>>
    \/ Return(1) /\ UNCHANGED <<dedupVars, pureVars>>

SpecDim == InitDim /\ [][NextDim]_vars

\* the lengths of the vectors of the records a load of file d gives
StoredLengths(d) == {Len(Stored(d)[i].embedding) : i \in 1..Len(Stored(d))}

\* C25: a vector-length mismatch is an error only at comparison time.  The
\* step of addEmbedding after its load never throws, whatever the lengths of
\* the stored vectors, and puts the record into the collection it saves; the
\* writeFile of an addEmbedding leaves the record in the file and the call
\* returns normally.  The step of findSimilarEmbeddings after its load throws
\* exactly when some stored record's vector has another length than the query
\* vector, and an outcome that is an error carries no items.
C25_MismatchAtComparison ==
    [][LET before == task[1]
           after == task'[1]
       IN /\ (before.pc = "load" /\ before.op = "addEmbedding" /\ after # before)
                 => /\ after.pc = "mkdir"
                    /\ \E i \in 1..Len(after.local.embeddings) :
                           after.local.embeddings[i] = before.arg
          /\ (before.pc = "write" /\ before.op = "addEmbedding" /\ disk' # disk)
                 => /\ after.ret = [kind |-> "void"]
                    /\ \E i \in 1..Len(Stored(disk')) : Stored(disk')[i] = before.arg
          /\ (before.pc = "load" /\ before.op = "findSimilarEmbeddings" /\ after # before)
                 => /\ after.pc = "done"
                    /\ after.ret.kind \in {"error", "items"}
                    /\ after.ret.kind = "error"
                           <=> StoredLengths(disk) \ {Len(before.arg.queryEmbedding)} # {}
                    /\ after.ret.kind = "error" => DOMAIN after.ret = {"kind"}
      ]_vars

\* the file holds vectors of both lengths, put there by addEmbedding, and a
\* findSimilarEmbeddings has thrown on it
C25_Witness ==
    /\ StoredLengths(disk) = {1, 2}
    /\ task[1].pc = "done"
    /\ task[1].op = "findSimilarEmbeddings"
    /\ task[1].ret.kind = "error"

\* a file whose load fails (readFile rejects for another reason than ENOENT,
\* JSON.parse rejects its text) or whose version is not EMBEDDING_VERSION
LoadFails(d) ==
    \/ d.kind \in {"unreadable", "corrupt"}
    \/ d.kind = "ok" /\ d.version # EMBEDDING_VERSION

\* C26: an addEmbedding call that ran on a file whose load fails or whose
\* version is another one, and whose save goes through, leaves a file with
\* the new record alone: the records the file had are gone, and a load of
\* the file gives exactly that record.
C26_AddAfterFailedLoad ==
    [][LET before == task[1]
       IN (/\ before.pc = "write"
           /\ before.op = "addEmbedding"
           /\ LoadFails(before.before)
           /\ task'[1].ret = [kind |-> "void"])
              => /\ disk'.kind = "ok"
                 /\ disk'.embeddings = <<before.arg>>
                 /\ loadEmbeddings(disk', now').embeddings = <<before.arg>>
      ]_vars

\* an addEmbedding has returned that started on the file JSON.parse rejects;
\* the record that file held is not in the file any more
C26_Witness ==
    /\ AddReturned(1)
    /\ task[1].before = CorruptFile
    /\ task[1].arg.id # CorruptFile.embeddings[1].id
    /\ Stored(disk) = <<task[1].arg>>

----------------------------------------------------------------------------
(* Claims about the keys of the items findDuplicates returns *)

UniqueKeys(items) ==
    \A i, j \in 1..Len(items) : KeyOf(items[i]) = KeyOf(items[j]) => i = j

----------------------------------------------------------------------------
(* Claims about the symmetry of calculateTextSimilarity *)

SameValue(x, y) == x.num * y.den = y.num * x.den

\* C28: calculateTextSimilarity(a, b) = calculateTextSimilarity(b, a) for
\* all strings a and b, those with normalized forms of the same length
\* included.
C28_TextSymmetric ==
    text.pc = "done"
        => SameValue(text.ret,
                     calculateTextSimilarity(normalize(text.text2), normalize(text.text1)))

----------------------------------------------------------------------------
(* Tokenizer.estimateTokens and truncateToTokenLimit.  A text is a         *)
(* sequence of characters.                                                  *)

CHARS_PER_TOKEN == 4
CODE_CHARS_PER_TOKEN == 3
WORD_BOUNDARY_FROM == 100
ELLIPSIS == <<".", ".", ".">>

charsPerTokenOf(isCode) == IF isCode THEN CODE_CHARS_PER_TOKEN ELSE CHARS_PER_TOKEN

\* Math.ceil(text.length / charsPerToken), 0 for the empty text
estimateTokens(t, isCode) ==
    IF t = <<>> THEN 0
    ELSE (Len(t) + charsPerTokenOf(isCode) - 1) \div charsPerTokenOf(isCode)

\* text.slice(0, n) for n >= 0
sliceTo(t, n) == SubSeq(t, 1, Min(n, Len(t)))

\* t.lastIndexOf(c): positions counted from 0, -1 when absent
lastIndexOf(t, c) ==
    LET hits == {q \in 1..Len(t) : t[q] = c}
    IN IF hits = {} THEN -1 ELSE (CHOOSE q \in hits : \A r \in hits : r <= q) - 1

truncateToTokenLimit(t, maxTokens, isCode) ==
    LET maxChars == maxTokens * charsPerTokenOf(isCode)
        truncated == sliceTo(t, maxChars)
        cutoff == Max(lastIndexOf(truncated, " "), lastIndexOf(truncated, "\n"))
    IN IF estimateTokens(t, isCode) <= maxTokens THEN t
       ELSE IF maxChars <= WORD_BOUNDARY_FROM THEN truncated
       ELSE IF cutoff * 10 > maxChars * 8 THEN sliceTo(truncated, cutoff) \o ELLIPSIS
       ELSE truncated \o ELLIPSIS

MaxSpread == 1   \* token limits run from 0, and from the first limits past 100 characters, MaxSpread up (SpecTokens)
MaxOver == 4     \* characters a text has beyond its limit (SpecTokens)

\* the first maxTokens with maxTokens * charsPerToken > 100
FirstLongLimit(isCode) == (WORD_BOUNDARY_FROM \div charsPerTokenOf(isCode)) + 1

TokenLimits(isCode) ==
    (0..MaxSpread) \cup ((FirstLongLimit(isCode) - 1)..(FirstLongLimit(isCode) + MaxSpread))

\* a run of n letters with the character sep at place p (no sep for p = 0)
TokenText(n, p, sep) == [i \in 1..n |-> IF i = p THEN sep ELSE "x"]

\* the places of a separator that matter for a limit of maxChars characters:
\* the start, around 0.8 * maxChars, around maxChars
SeparatorPlaces(n, maxChars) ==
    {p \in {0, 1, (maxChars * 8) \div 10, ((maxChars * 8) \div 10) + 1,
            ((maxChars * 8) \div 10) + 2, maxChars - 3, maxChars - 2, maxChars - 1,
            maxChars, maxChars + 1} : p >= 0 /\ p <= n}

TokenLengths(maxChars) ==
    {0} \cup {n \in (maxChars - 1)..(maxChars + MaxOver) : n >= 0}

TokenizerAt(t, maxTokens, isCode) ==
    [pc |-> "truncateToTokenLimit", text |-> t, maxTokens |-> maxTokens,
     isCode |-> isCode, result |-> <<>>]

\* truncateToTokenLimit, from its call to its return
TruncateToTokenLimit ==
    /\ tokenizer.pc = "truncateToTokenLimit"
    /\ tokenizer' = [tokenizer EXCEPT
                        !.result = truncateToTokenLimit(tokenizer.text, tokenizer.maxTokens,
                                                        tokenizer.isCode),
                        !.pc = "done"]

InitTokens ==
    /\ disk = MissingFile
    /\ now = 0
    /\ task = [t \in Callers |-> IdleTask]
    /\ calls = 0
    /\ DedupIdle
    /\ parser = ParserIdle
    /\ text = TextIdle
    /\ cosine = CosineIdle
    /\ limiter = LimiterIdle
    /\ \E isCode \in BOOLEAN :
           \E maxTokens \in TokenLimits(isCode) :
               \E n \in TokenLengths(maxTokens * charsPerTokenOf(isCode)) :
                   \E p \in SeparatorPlaces(n, maxTokens * charsPerTokenOf(isCode)) :
                       \E sep \in {" ", "\n"} :
                           tokenizer = TokenizerAt(TokenText(n, p, sep), maxTokens, isCode)

NextTokens ==
    TruncateToTokenLimit
        /\ UNCHANGED <<disk, now, task, calls, dedupVars, parser, text, cosine, limiter>>

SpecTokens == InitTokens /\ [][NextTokens]_vars

\* C29: the text truncateToTokenLimit returns fits the limit,
\* estimateTokens(result, isCode) <= maxTokens, for every text and every
\* maxTokens >= 0, and it is the input itself when the input fits.
C29_ResultFits ==
    tokenizer.pc = "done"
        => /\ estimateTokens(tokenizer.result, tokenizer.isCode) <= tokenizer.maxTokens
           /\ estimateTokens(tokenizer.text, tokenizer.isCode) <= tokenizer.maxTokens
                  => tokenizer.result = tokenizer.text

----------------------------------------------------------------------------
(* createRateLimiter and the module-level store its limiters share.  The   *)
(* clock is now; a limiter is known by its config.                          *)

MaxLimiterCalls == 4   \* calls of limiters per behaviour (SpecLimit)

ClientIds == {"c1", "c2"}

\* the configs of the limiters created: a short window and a long one
LimiterConfigs ==
    {[windowMs |-> 1, maxRequests |-> 1], [windowMs |-> MaxTime + 1, maxRequests |-> 2]}

RequestRecord(timestamp) == [timestamp |-> timestamp, count |-> 1]

RECURSIVE sumCounts(_)
sumCounts(records) ==
    IF records = <<>> THEN 0 ELSE records[1].count + sumCounts(Tail(records))

\* store.get(clientId) || [] of the empty Map
EmptyStore == [c \in ClientIds |-> <<>>]

\* no limiter has been called
LimiterReady == [pc |-> "ready", store |-> EmptyStore, log |-> <<>>]

\* one call of the limiter of config for clientId at time t on store st:
\* [store, allowed, remaining, resetMs]
limit(st, config, clientId, t) ==
    LET windowStart == t - config.windowMs
        records == SelectSeq(st[clientId], LAMBDA r : r.timestamp > windowStart)
        totalRequests == sumCounts(records)
    IN IF totalRequests >= config.maxRequests
       THEN [store |-> st, allowed |-> FALSE, remaining |-> 0,
             resetMs |-> IF records # <<>>
                         THEN records[1].timestamp + config.windowMs - t
                         ELSE config.windowMs]
       ELSE [store |-> [st EXCEPT ![clientId] = Append(records, RequestRecord(t))],
             allowed |-> TRUE, remaining |-> config.maxRequests - totalRequests - 1,
             resetMs |-> config.windowMs]

\* a limiter is called; the log keeps who was answered what, and when
Limit ==
    /\ limiter.pc = "ready"
    /\ Len(limiter.log) < MaxLimiterCalls
    /\ \E config \in LimiterConfigs, clientId \in ClientIds :
           LET r == limit(limiter.store, config, clientId, now)
           IN limiter' = [limiter EXCEPT
                             !.store = r.store,
                             !.log = Append(limiter.log,
                                            [config |-> config, clientId |-> clientId,
                                             timestamp |-> now, allowed |-> r.allowed,
                                             remaining |-> r.remaining,
                                             resetMs |-> r.resetMs])]

InitLimit ==
    /\ disk = MissingFile
    /\ now = 0
    /\ task = [t \in Callers |-> IdleTask]
    /\ calls = 0
    /\ DedupIdle
    /\ parser = ParserIdle
    /\ text = TextIdle
    /\ cosine = CosineIdle
    /\ tokenizer = TokenizerIdle
    /\ limiter = LimiterReady

NextLimit ==
    \/ Limit /\ UNCHANGED <<disk, now, task, calls, dedupVars, parser, text, cosine, tokenizer>>
    \/ Tick /\ UNCHANGED <<dedupVars, pureVars>>

SpecLimit == InitLimit /\ [][NextLimit]_vars

\* the calls of the log that the limiter of config answered allowed = true
\* for clientId at a time in the interval (from, from + windowMs]
AllowedIn(log, config, clientId, from) ==
    {i \in 1..Len(log) :
        /\ log[i].config = config
        /\ log[i].clientId = clientId
        /\ log[i].allowed
        /\ log[i].timestamp > from
        /\ log[i].timestamp <= from + config.windowMs}

\* C30: for every limiter and every client id, over any sequence of calls,
\* calls of other limiters for the same client id included, the calls the
\* limiter answered allowed = true at times in any one interval of length
\* windowMs are at most maxRequests, and a call answered allowed = false
\* leaves the store as it was.
C30_WindowNeverExceeded ==
    [][LET log == limiter'.log
       IN /\ \A config \in LimiterConfigs, clientId \in ClientIds,
                from \in (0 - (MaxTime + 1))..MaxTime :
                  Cardinality(AllowedIn(log, config, clientId, from)) <= config.maxRequests
          /\ (Len(log) > Len(limiter.log) /\ ~log[Len(log)].allowed)
                 => limiter'.store = limiter.store
      ]_vars

====
